---- MODULE Spec2Model ----
(***************************************************************************)
(* Canonical identity resolution and deduplication of ship variants.       *)
(*                                                                         *)
(* Text is modelled at character level: a string is a sequence of          *)
(* one-character strings, so that tokenising, sanitising, upper-casing and *)
(* title-casing are computed as src/src/lib/canon.ts computes them.        *)
(***************************************************************************)
EXTENDS Integers, Sequences, FiniteSets, TLC

VARIABLES
  \* --- canon.ts applied to one designation -------------------------------
  source,          \* the raw designation handed to the canon functions
  manufacturer,    \* the manufacturer code handed to the canon functions
  variantCode,     \* extractVariantCode(source)
  loaderVariantCode, \* extractVariantCode(source) of the copy in load.ts
  familyName,      \* cleanFamilyName(source, variantCode, manufacturer)
  hullKey,         \* buildHullKey(manufacturer, familyName)
  variantExtId,    \* toCanonicalVariantExtId(hullKey, variantCode)
  edition,         \* detectEditionOrLivery(source)
  editionOnly,     \* isEditionOnly(source)
  cpc,             \* which canon function is applied next
  \* --- scripts/migrate_dedup_variants.ts: the data store -------------------
  ships,           \* rows of the ships collection
  shipVariants,    \* rows of the ship_variants collection
  shipStats,       \* rows of the ship_stats collection
  hardpoints,      \* rows of the hardpoints collection
  installedItems,  \* rows of the installed_items collection
  \* --- scripts/migrate_dedup_variants.ts: one run of main() ----------------
  hasApply,        \* args.includes('--apply')
  hasDryRun,       \* args.includes('--dry-run')
  dryRun,          \* !hasApply
  requests,        \* the requests a run issued to the data store, as {op, collection}
  mpc,             \* position of main()
  variants,        \* fetched ship_variants rows the collect loop has not visited yet
  hullKeyByShipId, \* Map ship id -> {hullKey, baseName}
  shipUpdates,     \* ship rows to rewrite
  canonicalMap,    \* Map canonical id -> entry, as the sequence of its values
  resolved,        \* number of entries of canonicalMap the keeper loop has processed
  variantMigrationMap, \* Map variant row id -> canonical variant id
  editionMetadata, \* Map duplicate row id -> {profile, livery}
  keeperUpdates,   \* keeper rows to rewrite
  variantsToDelete,\* ids of the duplicate rows
  mergeLog,        \* {canonical, merged} per entry
  shipStatUpdates, \* ship_stats rows to repoint
  hardpointUpdates,\* hardpoints rows to repoint
  installedUpdates,\* installed_items rows to repoint
  run,             \* 1 for the first run of main(), 2 for the run after an apply
  firstRun,        \* what the first run resolved, kept for comparison with the second
  \* --- scripts/migrate_manufacturers.ts ----------------------------------
  kpc,             \* position of main()
  companies,       \* rows of the companies collection
  references,      \* the manufacturer references of the ships and items collections
  canonicalUpdates,\* Map canonical company id -> {id, code?, external_id?}, as its values
  duplicateMap,    \* Map duplicate company id -> canonical company id
  referenceUpdates,\* shipUpdates and itemUpdates: reference rows to repoint
  \* --- src/transform.ts: the resolution pass of transform() ----------------
  tpc,             \* position of transform()
  shipRecords,     \* ship records of readShipRecords the ship loop has not visited yet
  manufacturerMap, \* Map manufacturer external id -> normalized manufacturer
  hullMap,         \* Map hull key -> normalized ship
  shipIdToHullKey, \* Map raw ship id -> hull key
  variantGroups,   \* Map canonical variant id -> group, as the sequence of its values
  rawToCanonicalVariant, \* Map raw identifier -> canonical variant id
  rawVariants,     \* raw variants of ship_variants.json the variant loop has not visited yet
  rawDependents,   \* hardpoints.json, ship_stats.json, installed_items.json as read
  bundle,          \* the emitted ship_variants, hardpoints, ship_stats, installed_items
  warnings         \* what log.warn has reported

canonVars ==
  <<source, manufacturer, variantCode, loaderVariantCode, familyName, hullKey,
    variantExtId, edition, editionOnly, cpc>>

storeVars == <<ships, shipVariants, shipStats, hardpoints, installedItems>>

passVars ==
  <<variants, hullKeyByShipId, shipUpdates, canonicalMap, resolved,
    variantMigrationMap, editionMetadata, keeperUpdates, variantsToDelete, mergeLog,
    shipStatUpdates, hardpointUpdates, installedUpdates>>

argVars == <<hasApply, hasDryRun, dryRun>>

dedupVars == <<storeVars, passVars, argVars, requests, mpc, run, firstRun>>

resolveVars ==
  <<manufacturerMap, hullMap, shipIdToHullKey, variantGroups, rawToCanonicalVariant>>

transformVars ==
  <<tpc, shipRecords, resolveVars, rawVariants, rawDependents, bundle, warnings>>

companyVars ==
  <<kpc, companies, references, canonicalUpdates, duplicateMap, referenceUpdates>>

vars == <<canonVars, dedupVars, transformVars, companyVars>>

-----------------------------------------------------------------------------
(* Characters and JavaScript string primitives                             *)

DigitChars == <<"0","1","2","3","4","5","6","7","8","9">>
UpperChars ==
  <<"A","B","C","D","E","F","G","H","I","J","K","L","M",
    "N","O","P","Q","R","S","T","U","V","W","X","Y","Z">>
LowerChars ==
  <<"a","b","c","d","e","f","g","h","i","j","k","l","m",
    "n","o","p","q","r","s","t","u","v","w","x","y","z">>

Range(f) == { f[i] : i \in DOMAIN f }

DigitSet == Range(DigitChars)
UpperSet == Range(UpperChars)
LowerSet == Range(LowerChars)

\* [a-z0-9] under the i flag
IsAlnum(c) == c \in DigitSet \/ c \in UpperSet \/ c \in LowerSet
\* \w of a JavaScript regular expression
IsWordChar(c) == IsAlnum(c) \/ c = "_"
\* \s restricted to the characters of the model
IsSpace(c) == c = " "

LetterIndex(c, alphabet) == CHOOSE i \in DOMAIN alphabet : alphabet[i] = c

upperChar(c) == IF c \in LowerSet THEN UpperChars[LetterIndex(c, LowerChars)] ELSE c
lowerChar(c) == IF c \in UpperSet THEN LowerChars[LetterIndex(c, UpperChars)] ELSE c

toUpperCase(s) == [i \in 1..Len(s) |-> upperChar(s[i])]
toLowerCase(s) == [i \in 1..Len(s) |-> lowerChar(s[i])]

\* UTF-16 code unit order of the characters of the model (ASCII)
CodeUnits == <<" ", "-">> \o DigitChars \o UpperChars \o <<"_">> \o LowerChars
codeUnit(c) == CHOOSE i \in DOMAIN CodeUnits : CodeUnits[i] = c

\* a < b on JavaScript strings
RECURSIVE strLess(_, _)
strLess(a, b) ==
  IF b = <<>> THEN FALSE
  ELSE IF a = <<>> THEN TRUE
  ELSE IF Head(a) = Head(b) THEN strLess(Tail(a), Tail(b))
  ELSE codeUnit(Head(a)) < codeUnit(Head(b))

startsWith(s, prefix) ==
  Len(prefix) <= Len(s) /\ SubSeq(s, 1, Len(prefix)) = prefix

endsWith(s, suffix) ==
  Len(suffix) <= Len(s) /\ SubSeq(s, Len(s) - Len(suffix) + 1, Len(s)) = suffix

\* parts.join(sep)
RECURSIVE join(_, _)
join(parts, sep) ==
  IF parts = <<>> THEN <<>>
  ELSE IF Len(parts) = 1 THEN parts[1]
  ELSE parts[1] \o sep \o join(Tail(parts), sep)

\* undefined / null of an optional string
Null == <<"<null>">>

\* !value for an optional string
Falsy(value) == value = Null \/ value = <<>>

\* a ?? b
Coalesce(a, b) == IF a # Null THEN a ELSE b

-----------------------------------------------------------------------------
(* src/src/lib/canon.ts                                                     *)

VARIANT_TOKENS ==
  { <<"1">>, <<"1","T">>, <<"2">>, <<"2","5">>, <<"3">>, <<"A">>, <<"A","1">>, <<"A","2">>,
    <<"A","A">>, <<"A","L","P","H","A">>, <<"A","N","D","R","O","M","E","D","A">>,
    <<"A","N","T","A","R","E","S">>, <<"A","Q","U","I","L","A">>,
    <<"A","R","C","H","I","M","E","D","E","S">>, <<"A","R","G","O","S">>, <<"A","T","L","S">>,
    <<"B","E","T","A">>, <<"B","I","S","2","9","5","0">>, <<"B","I","S","2","9","5","1">>,
    <<"B","L","A","C","K">>, <<"B","L","A","D","E">>, <<"B","L","U","E">>, <<"C">>,
    <<"C","1">>, <<"C","2">>, <<"C","A","R","B","O","N">>, <<"C","A","R","G","O">>,
    <<"C","I","T","I","Z","E","N","C","O","N","2","0","1","8">>,
    <<"C","I","V","I","L","I","A","N">>, <<"C","L">>, <<"C","O","M","E","T">>,
    <<"C","O","M","P","E","T","I","T","I","O","N">>, <<"C","R","O","C","O","D","I","L","E">>,
    <<"D","E","L","T","A">>, <<"D","S">>, <<"D","U","N","E","S","T","A","L","K","E","R">>,
    <<"D","U","N","L","E","V","Y">>, <<"D","U","R">>, <<"E","C","L","I","P","S","E">>,
    <<"E","M","E","R","A","L","D">>, <<"E","S">>, <<"E","X">>, <<"E","X","E","C">>,
    <<"E","X","E","C","U","T","I","V","E">>, <<"E","X","P","E","D","I","T","I","O","N">>,
    <<"F","7","C">>, <<"F","7","C","M">>, <<"F","7","C","R">>, <<"F","7","C","S">>,
    <<"F","8">>, <<"F","8","C">>, <<"F","I","R","E","B","I","R","D">>, <<"F","O","R","C","E">>,
    <<"F","O","R","T","U","N","E">>, <<"F","R","E","E","L","A","N","C","E","R">>,
    <<"F","U","R","Y">>, <<"G","A","M","M","A">>, <<"G","E","M","I","N","I">>, <<"G","E","O">>,
    <<"G","L","A","D","I","U","S">>, <<"G","L","A","I","V","E">>, <<"G","R","A","D","0","1">>,
    <<"G","R","A","D","0","2">>, <<"G","R","A","D","0","3">>,
    <<"G","U","A","R","D","I","A","N">>, <<"H","A","M","M","E","R","H","E","A","D">>,
    <<"H","A","R","B","I","N","G","E","R">>, <<"H","E","A","R","T","S","E","E","K","E","R">>,
    <<"H","O","P","L","I","T","E">>, <<"I","K","T","I">>, <<"I","N","D","U","S","T">>,
    <<"I","N","D","U","S","T","R","I","A","L">>, <<"I","N","F","E","R","N","O">>,
    <<"I","O","N">>, <<"J","A","V","E","L","I","N">>, <<"K","U","E">>, <<"L","N">>,
    <<"L","X">>, <<"M">>, <<"M","2">>, <<"M","A","K","O">>, <<"M","A","X">>,
    <<"M","E","D","I","C">>, <<"M","E","D","I","V","A","C">>, <<"M","E","R","L","I","N">>,
    <<"M","I","L","I","T","A","R","Y">>, <<"M","I","L","T">>, <<"M","I","R","U">>,
    <<"M","K","1">>, <<"M","K","2">>, <<"M","O","D">>, <<"M","R">>, <<"M","T">>, <<"M","X">>,
    <<"N","O","X">>, <<"O","M","E","G","A">>, <<"P">>, <<"P","E","R","E","G","R","I","N","E">>,
    <<"P","H","O","E","N","I","X">>, <<"P","I","N","K">>, <<"P","I","R">>,
    <<"P","I","R","A","T","E">>, <<"P","I","S","C","E","S">>, <<"P","L","A","T">>,
    <<"P","R","O","S","P","E","C","T","O","R">>, <<"P","U","L","S","E">>, <<"Q","I">>,
    <<"R","A","M","B","L","E","R">>, <<"R","A","V","E","N">>, <<"R","A","Z","O","R">>,
    <<"R","C">>, <<"R","E","C","L","A","I","M","E","R">>, <<"R","E","D">>,
    <<"R","E","D","E","E","M","E","R">>, <<"R","E","L","I","A","N","T">>,
    <<"R","E","N","E","G","A","D","E">>, <<"R","E","T","A","L","I","A","T","O","R">>,
    <<"R","N">>, <<"R","O","V","E","R">>, <<"R","U","N","N","E","R">>, <<"S","A","B","R","E">>,
    <<"S","C","O","U","T">>, <<"S","C","Y","T","H","E">>, <<"S","E","N">>,
    <<"S","E","N","T","I","N","E","L">>, <<"S","H","O","W","D","O","W","N">>,
    <<"S","H","R","I","K","E">>, <<"S","N","O","W","B","L","I","N","D">>,
    <<"S","T","A","L","K","E","R">>, <<"S","T","A","R","F","A","R","E","R">>,
    <<"S","T","E","A","L","T","H">>,
    <<"S","T","E","A","L","T","H","I","N","D","U","S","T","R","I","A","L">>,
    <<"S","T","E","E","L">>, <<"S","Y","U","L","E","N">>, <<"T","A","C">>,
    <<"T","A","L","U","S">>, <<"T","A","N","A">>, <<"T","A","U","R","U","S">>,
    <<"T","I","T","A","N">>, <<"T","O","U","R","I","N","G">>, <<"T","R">>,
    <<"T","R","A","N","S","P","O","R","T">>, <<"T","R","I","A","G","E">>,
    <<"U","T","I","L","I","T","Y">>, <<"V","A","L","I","A","N","T">>,
    <<"V","A","N","G","U","A","R","D">>, <<"V","E","L","O","C","I","T","Y">>,
    <<"W","A","R","L","O","C","K">>, <<"W","I","L","D","F","I","R","E">>, <<"W","O","L","F">>,
    <<"Y","E","L","L","O","W">> }
VARIANT_TOKEN_SET == VARIANT_TOKENS

EDITION_KEYWORDS ==
  { <<"I","A","E">>, <<"I","N","V","I","C","T","U","S">>, <<"W","A","R","B","O","N","D">>,
    <<"S","H","O","W","F","L","O","O","R">>, <<"S","H","O","W","R","O","O","M">>,
    <<"F","O","U","N","D","A","T","I","O","N">>, <<"F","O","U","N","D","E","R">>,
    <<"P","R","O","M","O">>, <<"L","I","V","E","R","Y">>, <<"P","A","I","N","T">>,
    <<"R","E","F","E","R","R","A","L">>, <<"B","U","N","D","L","E">>, <<"P","A","C","K">>,
    <<"J","U","B","I","L","E","E">>, <<"L","I","M","I","T","E","D">>,
    <<"E","D","I","T","I","O","N">>, <<"E","V","E","N","T">> }

BASE == <<"B","A","S","E">>
UNKNOWN == <<"U","N","K","N","O","W","N">>
HULL == <<"H","U","L","L">>
UNDERSCORE == <<"_">>
SPACE == <<" ">>

RECURSIVE dropLeadingNonAlnum(_)
dropLeadingNonAlnum(s) ==
  IF s # <<>> /\ ~IsAlnum(Head(s)) THEN dropLeadingNonAlnum(Tail(s)) ELSE s

\* value.replace(/[^a-z0-9]+/gi, '_')
RECURSIVE replaceNonAlnumRuns(_)
replaceNonAlnumRuns(s) ==
  IF s = <<>> THEN <<>>
  ELSE IF IsAlnum(Head(s)) THEN <<Head(s)>> \o replaceNonAlnumRuns(Tail(s))
  ELSE UNDERSCORE \o replaceNonAlnumRuns(dropLeadingNonAlnum(Tail(s)))

\* value.replace(/_+/g, '_')
RECURSIVE collapseUnderscores(_)
collapseUnderscores(s) ==
  IF s = <<>> THEN <<>>
  ELSE IF Head(s) = "_" /\ Len(s) > 1 /\ s[2] = "_" THEN collapseUnderscores(Tail(s))
  ELSE <<Head(s)>> \o collapseUnderscores(Tail(s))

\* value.replace(/^_|_$/g, '')
trimUnderscore(s) ==
  LET t == IF s # <<>> /\ Head(s) = "_" THEN Tail(s) ELSE s
  IN IF t # <<>> /\ t[Len(t)] = "_" THEN SubSeq(t, 1, Len(t) - 1) ELSE t

sanitizeToken(value) ==
  toUpperCase(trimUnderscore(collapseUnderscores(replaceNonAlnumRuns(value))))

\* input.split(/[^a-z0-9]+/i).filter(Boolean)
RECURSIVE tokensFrom(_, _)
tokensFrom(s, current) ==
  IF s = <<>> THEN (IF current = <<>> THEN <<>> ELSE <<current>>)
  ELSE IF IsAlnum(Head(s)) THEN tokensFrom(Tail(s), Append(current, Head(s)))
  ELSE (IF current = <<>> THEN <<>> ELSE <<current>>) \o tokensFrom(Tail(s), <<>>)

tokens(input) == tokensFrom(input, <<>>)

\* value.split(/\s+/).filter(Boolean)
RECURSIVE wordsFrom(_, _)
wordsFrom(s, current) ==
  IF s = <<>> THEN (IF current = <<>> THEN <<>> ELSE <<current>>)
  ELSE IF ~IsSpace(Head(s)) THEN wordsFrom(Tail(s), Append(current, Head(s)))
  ELSE (IF current = <<>> THEN <<>> ELSE <<current>>) \o wordsFrom(Tail(s), <<>>)

capitalize(part) == <<upperChar(part[1])>> \o Tail(part)

titleCase(value) ==
  LET parts == wordsFrom(toLowerCase(value), <<>>)
  IN join([i \in 1..Len(parts) |-> capitalize(parts[i])], SPACE)

buildHullKey(manufacturerCode, family) ==
  LET manufacturerToken ==
        IF ~Falsy(manufacturerCode) THEN sanitizeToken(manufacturerCode) ELSE UNKNOWN
      familyToken == IF ~Falsy(family) THEN sanitizeToken(family) ELSE HULL
  IN manufacturerToken \o UNDERSCORE \o familyToken

\* mutant of extractResult: the final BASE default is lost
extractResult_NoBaseDefault(bestKnown, fallback) ==
  Coalesce(bestKnown, Coalesce(fallback, <<>>))

\* mutant of extractResult: the first token is preferred to the vocabulary match
extractResult_FallbackFirst(bestKnown, fallback) ==
  Coalesce(fallback, Coalesce(bestKnown, BASE))

\* bestKnown ?? fallback ?? 'BASE'
extractResult(bestKnown, fallback) == Coalesce(bestKnown, Coalesce(fallback, BASE))

\* mutant of betterKnown: the first vocabulary token is kept
betterKnown_FirstWins(normalized, bestKnown) == bestKnown = Null

\* the tie-break of the vocabulary match: longer wins, then the smaller string
betterKnown(normalized, bestKnown) ==
  \/ bestKnown = Null
  \/ Len(normalized) > Len(bestKnown)
  \/ (Len(normalized) = Len(bestKnown) /\ strLess(normalized, bestKnown))

\* mutant of isBaseMarker: the explicit base marker is not recognised
isBaseMarker_Never(normalized) == FALSE

\* normalized === 'BASE'
isBaseMarker(normalized) == normalized = BASE

\* mutant of fallbackWith: the last token is kept instead of the first
fallbackWith_Last(fallback, normalized) == normalized

\* if (!fallback) fallback = normalized
fallbackWith(fallback, normalized) ==
  IF Falsy(fallback) THEN normalized ELSE fallback

\* the for loop of extractVariantCode over the remaining tokens
RECURSIVE extractLoop(_, _, _)
extractLoop(toks, bestKnown, fallback) ==
  IF toks = <<>> THEN extractResult(bestKnown, fallback)
  ELSE
    LET normalized == sanitizeToken(Head(toks)) IN
    IF normalized = <<>> THEN extractLoop(Tail(toks), bestKnown, fallback)
    ELSE IF isBaseMarker(normalized) THEN BASE
    ELSE
      LET nextFallback == fallbackWith(fallback, normalized)
          nextBest ==
            IF normalized \in VARIANT_TOKEN_SET /\ betterKnown(normalized, bestKnown)
            THEN normalized ELSE bestKnown
      IN extractLoop(Tail(toks), nextBest, nextFallback)

extractVariantCode(src) ==
  IF Falsy(src) THEN BASE ELSE extractLoop(tokens(src), Null, Null)

\* the word-bounded, case-insensitive match of keyword at position i of name
matchesWordAt(name, i, keyword) ==
  /\ i + Len(keyword) - 1 <= Len(name)
  /\ toUpperCase(SubSeq(name, i, i + Len(keyword) - 1)) = keyword
  /\ (i = 1 \/ ~IsWordChar(name[i - 1]))
  /\ (i + Len(keyword) > Len(name) \/ ~IsWordChar(name[i + Len(keyword)]))

\* the positions at which \b(k1|k2|...)\b matches in name
regexMatches(name, keywords) ==
  { i \in 1..Len(name) : \E k \in keywords : matchesWordAt(name, i, k) }

\* the vocabulary of the copy of the canon functions in load.ts
LOADER_VARIANT_TOKENS == { <<"E","S">>, <<"C","L">>, <<"M","R">> }

\* source.match(VARIANT_PATTERN): the position of the leftmost match of
\* \b(ES|CL|MR)\b, case-insensitive, or 0
VARIANT_PATTERN(src) ==
  LET matches == regexMatches(src, LOADER_VARIANT_TOKENS)
  IN IF matches = {} THEN 0
     ELSE CHOOSE i \in matches : \A j \in matches : i <= j

\* extractVariantCode of load.ts
loaderExtractVariantCode(src) ==
  IF Falsy(src) THEN BASE
  ELSE LET match == VARIANT_PATTERN(src)
       IN IF match = 0 THEN BASE
          ELSE LET value == toUpperCase(SubSeq(src, match, match + 1))
               IN IF value \in LOADER_VARIANT_TOKENS THEN value ELSE BASE

\* EDITION_REGEX.test(name)
EDITION_REGEX(name) == regexMatches(name, EDITION_KEYWORDS) # {}

LIVERY_KEYWORDS == { <<"L","I","V","E","R","Y">>, <<"P","A","I","N","T">> }

\* value.trim()
RECURSIVE trimStart(_)
trimStart(s) == IF s # <<>> /\ IsSpace(Head(s)) THEN trimStart(Tail(s)) ELSE s
RECURSIVE trimEnd(_)
trimEnd(s) ==
  IF s # <<>> /\ IsSpace(s[Len(s)]) THEN trimEnd(SubSeq(s, 1, Len(s) - 1)) ELSE s
trim(s) == trimEnd(trimStart(s))

\* a.localeCompare(b) for two upper-case edition keywords: alphabetical order
keywordCompare(a, b) == IF a = b THEN 0 ELSE IF strLess(a, b) THEN -1 ELSE 1

EDITION_PRIORITY == << <<"I","A","E">>, <<"I","N","V","I","C","T","U","S">> >>

\* score of the comparator of detected.sort
editionScore(value) ==
  IF \E i \in DOMAIN EDITION_PRIORITY : EDITION_PRIORITY[i] = value
  THEN (CHOOSE i \in DOMAIN EDITION_PRIORITY : EDITION_PRIORITY[i] = value) - 1
  ELSE Len(EDITION_PRIORITY)

editionCompare(a, b) ==
  LET diff == editionScore(a) - editionScore(b)
  IN IF diff # 0 THEN diff ELSE keywordCompare(a, b)

\* detected.sort(...): Array.prototype.sort is stable
RECURSIVE insertEdition(_, _)
insertEdition(sorted, x) ==
  IF sorted = <<>> THEN <<x>>
  ELSE IF editionCompare(Head(sorted), x) <= 0
       THEN <<Head(sorted)>> \o insertEdition(Tail(sorted), x)
       ELSE <<x>> \o sorted

RECURSIVE sortEditions(_)
sortEditions(detected) ==
  IF detected = <<>> THEN <<>>
  ELSE insertEdition(sortEditions(SubSeq(detected, 1, Len(detected) - 1)),
                     detected[Len(detected)])

\* the edition keywords among the tokens of name, in source order
detectEditionTokens(name) ==
  LET upper == [i \in 1..Len(tokens(name)) |-> toUpperCase(tokens(name)[i])]
      IsKeyword(t) == t \in EDITION_KEYWORDS
  IN SelectSeq(upper, IsKeyword)

\* the livery label: up to three tokens after the first LIVERY/PAINT word
detectLivery(name) ==
  LET found == regexMatches(name, LIVERY_KEYWORDS) IN
  IF found = {} THEN Null
  ELSE
    LET index == CHOOSE i \in found : \A j \in found : i <= j
        keyword == CHOOSE k \in LIVERY_KEYWORDS : matchesWordAt(name, index, k)
        tail == trim(SubSeq(name, index + Len(keyword), Len(name)))
        tailTokens == tokens(tail)
        summary == join(SubSeq(tailTokens, 1, IF Len(tailTokens) < 3 THEN Len(tailTokens) ELSE 3),
                        SPACE)
    IN IF tail # <<>> /\ summary # <<>> THEN titleCase(summary) ELSE Null

NoEdition == [editionCode |-> Null, livery |-> Null]

detectEditionOrLivery(name) ==
  IF Falsy(name) THEN NoEdition
  ELSE
    LET detected == detectEditionTokens(name)
        editionCode ==
          IF detected # <<>>
          THEN sanitizeToken(join(sortEditions(detected), UNDERSCORE))
          ELSE Null
    IN [editionCode |-> editionCode, livery |-> detectLivery(name)]

isEditionOnly(name) ==
  IF Falsy(name) THEN FALSE
  ELSE IF extractVariantCode(name) # BASE THEN FALSE
  ELSE EDITION_REGEX(name)

toCanonicalVariantExtId(hull, code) == hull \o UNDERSCORE \o sanitizeToken(code)

\* the manufacturerTokens set of cleanFamilyName
collectManufacturerTokens(manufacturerCode) ==
  IF Falsy(manufacturerCode) THEN {}
  ELSE
    LET normalized == sanitizeToken(manufacturerCode)
    IN {normalized}
       \cup (IF endsWith(normalized, <<"S">>)
             THEN {SubSeq(normalized, 1, Len(normalized) - 1)} ELSE {})
       \cup { sanitizeToken(t) : t \in Range(tokens(manufacturerCode)) }

\* mutant of keepFamilyToken: only a token equal to a manufacturer token is
\* taken for one of the manufacturer
keepFamilyToken_EqualOnly(token, variantToken, manufacturerTokens) ==
  LET upper == sanitizeToken(token) IN
  /\ upper # <<>>
  /\ upper # variantToken
  /\ ~(upper # BASE /\ upper \in VARIANT_TOKEN_SET)
  /\ upper \notin EDITION_KEYWORDS
  /\ upper \notin manufacturerTokens

\* the filter predicate of cleanFamilyName
keepFamilyToken(token, variantToken, manufacturerTokens) ==
  LET upper == sanitizeToken(token) IN
  /\ upper # <<>>
  /\ upper # variantToken
  /\ ~(upper # BASE /\ upper \in VARIANT_TOKEN_SET)
  /\ upper \notin EDITION_KEYWORDS
  /\ upper \notin manufacturerTokens
  /\ \A candidate \in manufacturerTokens :
       ~(candidate # <<>> /\ (startsWith(upper, candidate) \/ startsWith(candidate, upper)))

\* mutant of familyOrFallback: the family name is the whole input, unfiltered
familyOrFallback_WholeInput(filtered, input) == sanitizeToken(input)

\* the result of cleanFamilyName once the tokens are filtered
familyOrFallback(filtered, input) ==
  IF filtered # <<>>
  THEN join([i \in 1..Len(filtered) |-> sanitizeToken(filtered[i])], UNDERSCORE)
  ELSE sanitizeToken(input)

cleanFamilyName(input, code, manufacturerCode) ==
  LET variantToken == sanitizeToken(code)
      manufacturerTokens == collectManufacturerTokens(manufacturerCode)
      Keep(token) == keepFamilyToken(token, variantToken, manufacturerTokens)
  IN familyOrFallback(SelectSeq(tokens(input), Keep), input)

canonicalVariantName(baseName, code) ==
  IF code = BASE THEN titleCase(baseName)
  ELSE titleCase(baseName) \o SPACE \o code

-----------------------------------------------------------------------------
(* The canon functions applied to one designation                           *)

\* bound: the number of pieces a generated designation is concatenated from
MaxPieces == 3

\* words and separators the generated designations are built from
Pieces ==
  { <<" ">>, <<"_">>, <<"C","L">>, <<"M","r">>, <<"B","a","s","e">>,
    <<"W","a","r","b","o","n","d">>, <<"Z","e","u","s">>, <<"R","S","I">>,
    <<"P","a","i","n","t">>, <<"2","9","5">> }

RECURSIVE Concatenations(_)
Concatenations(n) ==
  IF n = 0 THEN { <<>> }
  ELSE LET shorter == Concatenations(n - 1)
       IN shorter \cup { s \o p : s \in { t \in shorter : TRUE }, p \in Pieces }

RSI == <<"R","S","I">>
AEGS == <<"A","E","G","S">>

\* "RSI Zeus Mk II CL"
Example1 ==
  <<"R","S","I"," ","Z","e","u","s"," ","M","k"," ","I","I"," ","C","L">>
\* "Zeus Mk II CL Warbond IAE 2954"
Example2 ==
  <<"Z","e","u","s"," ","M","k"," ","I","I"," ","C","L"," ",
    "W","a","r","b","o","n","d"," ","I","A","E"," ","2","9","5","4">>

\* vocabulary tokens of different lengths, the longer one last and first
LongerLast == <<"C","L"," ","M","a","x">>
LongerFirst == <<"M","a","x"," ","M","r">>

\* a token that is the singular form of the manufacturer code AEGS
SingularFirst == <<"A","e","g"," ","Z","e","u","s"," ","C","L">>

\* a token that starts with the manufacturer code RSI and one that is a
\* prefix of the manufacturer code AEGS
PrefixFirst == <<"R","s","i","2"," ","A","e"," ","Z","e","u","s"," ","C","L">>

Designations ==
  {Null, Example1, Example2, LongerLast, LongerFirst, SingularFirst, PrefixFirst}
    \cup Concatenations(MaxPieces)

ManufacturerCodes == {RSI, AEGS}

\* transform() is not running
TransformIdle ==
  /\ tpc = "idle"
  /\ shipRecords = {}
  /\ manufacturerMap = <<>>
  /\ hullMap = <<>>
  /\ shipIdToHullKey = <<>>
  /\ variantGroups = <<>>
  /\ rawToCanonicalVariant = <<>>
  /\ rawVariants = <<>>
  /\ rawDependents = <<>>
  /\ bundle = <<>>
  /\ warnings = {}

\* the manufacturer migration is not running
CompaniesIdle ==
  /\ kpc = "idle"
  /\ companies = {}
  /\ references = [ships |-> {}, items |-> {}]
  /\ canonicalUpdates = {}
  /\ duplicateMap = <<>>
  /\ referenceUpdates = [ships |-> {}, items |-> {}]

\* the migration script is not running
DedupIdle ==
  /\ ships = {}
  /\ shipVariants = {}
  /\ shipStats = {}
  /\ hardpoints = {}
  /\ installedItems = {}
  /\ hasApply = FALSE
  /\ hasDryRun = FALSE
  /\ dryRun = TRUE
  /\ requests = {}
  /\ mpc = "idle"
  /\ variants = {}
  /\ hullKeyByShipId = <<>>
  /\ shipUpdates = {}
  /\ canonicalMap = <<>>
  /\ resolved = 0
  /\ variantMigrationMap = <<>>
  /\ editionMetadata = <<>>
  /\ keeperUpdates = {}
  /\ variantsToDelete = {}
  /\ mergeLog = <<>>
  /\ shipStatUpdates = {}
  /\ hardpointUpdates = {}
  /\ installedUpdates = {}
  /\ run = 0
  /\ firstRun = <<>>

CanonInit ==
  /\ source \in Designations
  /\ manufacturer \in ManufacturerCodes
  /\ variantCode = Null
  /\ loaderVariantCode = Null
  /\ familyName = Null
  /\ hullKey = Null
  /\ variantExtId = Null
  /\ edition = NoEdition
  /\ editionOnly = FALSE
  /\ cpc = "extractVariantCode"
  /\ DedupIdle
  /\ CompaniesIdle
  /\ TransformIdle

ExtractVariantCode ==
  /\ cpc = "extractVariantCode"
  /\ variantCode' = extractVariantCode(source)
  /\ loaderVariantCode' = loaderExtractVariantCode(source)
  /\ cpc' = IF source = Null THEN "detectEditionOrLivery" ELSE "cleanFamilyName"
  /\ UNCHANGED <<source, manufacturer, familyName, hullKey, variantExtId, edition,
                 editionOnly>>
  /\ UNCHANGED <<dedupVars, transformVars, companyVars>>

CleanFamilyName ==
  /\ cpc = "cleanFamilyName"
  /\ familyName' = cleanFamilyName(source, variantCode, manufacturer)
  /\ cpc' = "buildHullKey"
  /\ UNCHANGED loaderVariantCode
  /\ UNCHANGED <<source, manufacturer, variantCode, hullKey, variantExtId, edition,
                 editionOnly>>
  /\ UNCHANGED <<dedupVars, transformVars, companyVars>>

BuildHullKey ==
  /\ cpc = "buildHullKey"
  /\ hullKey' = buildHullKey(manufacturer, familyName)
  /\ cpc' = "toCanonicalVariantExtId"
  /\ UNCHANGED loaderVariantCode
  /\ UNCHANGED <<source, manufacturer, variantCode, familyName, variantExtId, edition,
                 editionOnly>>
  /\ UNCHANGED <<dedupVars, transformVars, companyVars>>

ToCanonicalVariantExtId ==
  /\ cpc = "toCanonicalVariantExtId"
  /\ variantExtId' = toCanonicalVariantExtId(hullKey, variantCode)
  /\ cpc' = "detectEditionOrLivery"
  /\ UNCHANGED loaderVariantCode
  /\ UNCHANGED <<source, manufacturer, variantCode, familyName, hullKey, edition,
                 editionOnly>>
  /\ UNCHANGED <<dedupVars, transformVars, companyVars>>

DetectEditionOrLivery ==
  /\ cpc = "detectEditionOrLivery"
  /\ edition' = detectEditionOrLivery(source)
  /\ cpc' = "isEditionOnly"
  /\ UNCHANGED loaderVariantCode
  /\ UNCHANGED <<source, manufacturer, variantCode, familyName, hullKey, variantExtId,
                 editionOnly>>
  /\ UNCHANGED <<dedupVars, transformVars, companyVars>>

IsEditionOnly ==
  /\ cpc = "isEditionOnly"
  /\ editionOnly' = isEditionOnly(source)
  /\ cpc' = "done"
  /\ UNCHANGED loaderVariantCode
  /\ UNCHANGED <<source, manufacturer, variantCode, familyName, hullKey, variantExtId,
                 edition>>
  /\ UNCHANGED <<dedupVars, transformVars, companyVars>>

CanonNext ==
  \/ ExtractVariantCode
  \/ CleanFamilyName
  \/ BuildHullKey
  \/ ToCanonicalVariantExtId
  \/ DetectEditionOrLivery
  \/ IsEditionOnly

SpecCanon == CanonInit /\ [][CanonNext]_vars

CanonDone == cpc = "done"

-----------------------------------------------------------------------------
(* Claims about the canon functions, checked under SpecCanon                *)

\* C3: extractVariantCode returns a non-empty string for every input
\* (undefined, the empty string, text without an alphanumeric character, any
\* other text).
C3_VariantCodeNeverEmpty ==
  cpc # "extractVariantCode" => (variantCode # Null /\ Len(variantCode) >= 1)

\* a designation made of separators only has been resolved, to BASE
C3_Witness ==
  /\ cpc = "done"
  /\ source = <<" ", "_">>
  /\ variantCode = BASE

\* the sanitised tokens of a designation
SanitizedTokens(text) ==
  IF Falsy(text) THEN {} ELSE { sanitizeToken(t) : t \in Range(tokens(text)) }

\* C4: when at least one sanitised token of the input is in the curated
\* vocabulary, extractVariantCode returns a vocabulary member or BASE, never
\* an out-of-vocabulary token.
C4_VocabularyContainment ==
  (cpc # "extractVariantCode" /\ SanitizedTokens(source) \cap VARIANT_TOKEN_SET # {})
    => variantCode \in VARIANT_TOKEN_SET \cup {BASE}

\* "Zeus CL": an out-of-vocabulary token comes first, the vocabulary token wins
C4_Witness ==
  /\ cpc = "done"
  /\ source = <<"Z","e","u","s"," ","C","L">>
  /\ variantCode = <<"C","L">>

\* the sanitised tokens of a designation, in the order of the source
SanitizedTokenSeq(text) ==
  IF Falsy(text) THEN <<>>
  ELSE LET NonEmpty(t) == t # <<>>
           toks == tokens(text)
       IN SelectSeq([i \in DOMAIN toks |-> sanitizeToken(toks[i])], NonEmpty)

\* extractVariantCode has just returned the variant code of the source
variantCodeReturned ==
  cpc = "cleanFamilyName" \/ (cpc = "detectEditionOrLivery" /\ source = Null)

\* C18: if a token of the source sanitises to BASE, extractVariantCode
\* has returned BASE, whichever vocabulary tokens come before or after it.
C18_BaseMarkerWins ==
  (variantCodeReturned /\ BASE \in SanitizedTokens(source)) => variantCode = BASE

\* "CL Base": a vocabulary token comes before the base marker
C18_Witness ==
  /\ cpc = "cleanFamilyName"
  /\ source = <<"C","L"," ","B","a","s","e">>
  /\ variantCode = BASE

\* the longest of the given tokens and, among the longest, the smallest
BestMatch(candidates) ==
  CHOOSE best \in candidates :
    \A other \in candidates \ {best} :
      \/ Len(best) > Len(other)
      \/ (Len(best) = Len(other) /\ strLess(best, other))

\* the tokens of a designation in reverse order, joined by a space
Reversed(text) ==
  LET toks == tokens(text)
  IN join([i \in DOMAIN toks |-> toks[Len(toks) + 1 - i]], SPACE)

\* C19: for a source without BASE token and with at least one vocabulary
\* token, extractVariantCode returns the longest vocabulary token of the
\* source and, among the longest, the lexicographically smallest; the source
\* with its tokens in the reverse order gives the same code.
C19_BestMatchTieBreak ==
  variantCodeReturned =>
    LET known == SanitizedTokens(source) \cap VARIANT_TOKEN_SET
    IN (BASE \notin SanitizedTokens(source) /\ known # {})
         => /\ variantCode = BestMatch(known)
            /\ extractVariantCode(Reversed(source)) = variantCode

\* "Mr CL": two vocabulary tokens of one length, the later one is the smaller
C19_Witness ==
  /\ cpc = "cleanFamilyName"
  /\ source = <<"M","r"," ","C","L">>
  /\ variantCode = <<"C","L">>

\* C20: for a source without BASE token and without vocabulary token,
\* extractVariantCode returns the first non-empty sanitised token of the
\* source, and BASE when the source has no token.
C20_TwoTierFallback ==
  variantCodeReturned =>
    LET sanitized == SanitizedTokenSeq(source)
    IN (BASE \notin Range(sanitized) /\ Range(sanitized) \cap VARIANT_TOKEN_SET = {})
         => variantCode = IF sanitized = <<>> THEN BASE ELSE Head(sanitized)

\* "Zeus Paint": neither token is in the vocabulary, the first one is returned
C20_Witness ==
  /\ cpc = "cleanFamilyName"
  /\ source = <<"Z","e","u","s"," ","P","a","i","n","t">>
  /\ variantCode = <<"Z","E","U","S">>

\* the designation with its edition keywords taken out
WithoutEditionKeywords(text) ==
  LET NotKeyword(t) == toUpperCase(t) \notin EDITION_KEYWORDS
  IN join(SelectSeq(tokens(text), NotKeyword), SPACE)

\* the family tokens of a designation that survive the filter of
\* cleanFamilyName, sanitised, in the order of the source
FamilyTokens(text, manufacturerCode) ==
  IF Falsy(text) THEN <<>>
  ELSE LET variantToken == sanitizeToken(extractVariantCode(text))
           manufacturerTokens == collectManufacturerTokens(manufacturerCode)
           Keep(token) == keepFamilyToken(token, variantToken, manufacturerTokens)
           filtered == SelectSeq(tokens(text), Keep)
       IN [i \in DOMAIN filtered |-> sanitizeToken(filtered[i])]

\* the hull key the canon functions give a designation
HullKeyOf(text, manufacturerCode) ==
  buildHullKey(manufacturerCode,
               cleanFamilyName(text, extractVariantCode(text), manufacturerCode))

\* every separator run of the designation replaced by " - "
Respaced(text) == join(tokens(text), <<" ", "-", " ">>)

\* other spellings of a designation: its letter case and separators changed,
\* a variant token, an edition keyword or the manufacturer code added, its
\* edition keywords removed, its tokens reversed
Respellings(text, manufacturerCode) ==
  { toLowerCase(text), toUpperCase(text), Respaced(text),
    text \o <<" ">> \o <<"C","L">>, text \o <<"_">> \o <<"W","a","r","b","o","n","d">>,
    manufacturerCode \o <<" ">> \o text,
    WithoutEditionKeywords(text), Reversed(text) }

\* whether two token sequences hold the same tokens in a different order
Reordered(a, b) ==
  /\ a # b
  /\ Len(a) = Len(b)
  /\ \A t \in Range(a) \cup Range(b) :
       Cardinality({ i \in DOMAIN a : a[i] = t }) = Cardinality({ i \in DOMAIN b : b[i] = t })

familyNameReturned == cpc = "buildHullKey"

\* C21: the family name cleanFamilyName returns is never the empty string,
\* and when the filter removes every token it is the sanitised whole input.
C21_FamilyNameNonEmpty ==
  familyNameReturned
    => /\ familyName # <<>>
       /\ FamilyTokens(source, manufacturer) = <<>> => familyName = sanitizeToken(source)

\* the sanitised form of a manufacturer code without its final S
SingularOf(manufacturerCode) ==
  LET normalized == sanitizeToken(manufacturerCode)
  IN SubSeq(normalized, 1, Len(normalized) - 1)

\* whether a sanitised token has one of the four reasons to be dropped from
\* the family name
DroppedFromFamily(upper, code, manufacturerCode) ==
  LET manufacturerTokens == collectManufacturerTokens(manufacturerCode) IN
  \/ upper = code
  \/ upper \in VARIANT_TOKENS
  \/ upper \in EDITION_KEYWORDS
  \/ \E candidate \in manufacturerTokens :
       upper = candidate \/ startsWith(upper, candidate) \/ startsWith(candidate, upper)

\* the sanitised tokens of the source that have none of the four reasons, in
\* the order of the source
Survivors(text, code, manufacturerCode) ==
  LET all == SanitizedTokenSeq(text)
      Stays(upper) == ~DroppedFromFamily(upper, code, manufacturerCode)
  IN SelectSeq(all, Stays)

\* C22: when a token survives, the family name is the surviving tokens in
\* the order of the source joined by "_", a token surviving when it is not
\* the variant code, not in the vocabulary, not an edition keyword, and
\* neither equal to, nor starting with, nor a prefix of a manufacturer token;
\* a manufacturer code ending in S gives its singular form as a token too.
C22_FamilyFilter ==
  familyNameReturned
    => /\ Survivors(source, variantCode, manufacturer) # <<>>
            => familyName = join(Survivors(source, variantCode, manufacturer), UNDERSCORE)
       /\ endsWith(sanitizeToken(manufacturer), <<"S">>)
            => SingularOf(manufacturer) \in collectManufacturerTokens(manufacturer)

\* "Rsi2 Ae Zeus CL" of AEGS: AE is a prefix of the manufacturer code and CL
\* the variant code, RSI2 and ZEUS survive; the singular form of AEGS is AEG
C22_Witness ==
  /\ familyNameReturned
  /\ source = PrefixFirst
  /\ manufacturer = AEGS
  /\ variantCode = <<"C","L">>
  /\ Survivors(source, variantCode, manufacturer) = << <<"R","S","I","2">>, <<"Z","E","U","S">> >>
  /\ familyName = <<"R","S","I","2","_","Z","E","U","S">>
  /\ SingularOf(manufacturer) = <<"A","E","G">>

\* C26: the variant code the loader's copy of extractVariantCode derives
\* from a designation is the one the transform pass and the migration derive
\* from it with extractVariantCode of canon.ts.
C26_OneMatchingPolicy ==
  cpc # "extractVariantCode" => loaderVariantCode = variantCode

\* the canonical variant id the canon functions give a designation
CanonicalIdOf(text, manufacturerCode) ==
  LET code == extractVariantCode(text)
  IN toCanonicalVariantExtId(
       buildHullKey(manufacturerCode, cleanFamilyName(text, code, manufacturerCode)), code)

\* C5: for every name with isEditionOnly(name), the canonical variant id is
\* the id of the BASE variant of the hull the name denotes without its
\* edition keywords: the keywords reach neither the variant code nor the
\* hull key.
C5_EditionExcludedFromIdentity ==
  (cpc = "done" /\ editionOnly)
    => /\ variantCode = BASE
       /\ variantExtId = CanonicalIdOf(WithoutEditionKeywords(source), manufacturer)

RSI_ZEUS_MKII == <<"R","S","I","_","Z","E","U","S","_","M","K","I","I">>
RSI_ZEUS_MKII_CL == RSI_ZEUS_MKII \o <<"_","C","L">>

\* C8: "RSI Zeus Mk II CL" of manufacturer RSI yields hull key RSI_ZEUS_MKII,
\* variant code CL and canonical variant id RSI_ZEUS_MKII_CL.
C8_Example1 ==
  (cpc = "done" /\ source = Example1 /\ manufacturer = RSI)
    => /\ hullKey = RSI_ZEUS_MKII
       /\ variantCode = <<"C","L">>
       /\ variantExtId = RSI_ZEUS_MKII_CL

\* C9: "Zeus Mk II CL Warbond IAE 2954" of manufacturer RSI resolves to the
\* hull key and the canonical variant id of "RSI Zeus Mk II CL", which is
\* RSI_ZEUS_MKII_CL.
C9_Example2Identity ==
  (cpc = "done" /\ source = Example2 /\ manufacturer = RSI)
    => /\ hullKey = buildHullKey(RSI, cleanFamilyName(Example1, extractVariantCode(Example1), RSI))
       /\ variantExtId = CanonicalIdOf(Example1, RSI)
       /\ variantExtId = RSI_ZEUS_MKII_CL

\* C10: a numeric token of 3 to 4 digits right after an edition keyword is
\* appended to that keyword: "Zeus Mk II CL Warbond IAE 2954" yields the
\* edition code IAE2954_WARBOND.
C10_YearCompounded ==
  (cpc = "done" /\ source = Example2)
    => edition.editionCode =
         <<"I","A","E","2","9","5","4","_","W","A","R","B","O","N","D">>

-----------------------------------------------------------------------------
(* scripts/migrate_dedup_variants.ts                                        *)

\* Map.set(key, value) on a Map held as a function
MapSet(map, key, value) ==
  [k \in DOMAIN map \cup {key} |-> IF k = key THEN value ELSE map[k]]

\* String.prototype.localeCompare on the characters of the model: the root
\* collation orders space < "_" < "-" < ":" < digits < letters, compares letters
\* without case first and puts lower case before upper case on a tie
CollationOrder == <<" ", "_", "-", ":">> \o DigitChars \o LowerChars
collationWeight(c) ==
  CHOOSE i \in DOMAIN CollationOrder : CollationOrder[i] = lowerChar(c)

RECURSIVE primaryCompare(_, _)
primaryCompare(a, b) ==
  IF a = <<>> /\ b = <<>> THEN 0
  ELSE IF a = <<>> THEN -1
  ELSE IF b = <<>> THEN 1
  ELSE IF collationWeight(Head(a)) = collationWeight(Head(b))
       THEN primaryCompare(Tail(a), Tail(b))
       ELSE IF collationWeight(Head(a)) < collationWeight(Head(b)) THEN -1 ELSE 1

RECURSIVE caseCompare(_, _)
caseCompare(a, b) ==
  IF a = <<>> \/ b = <<>> THEN 0
  ELSE IF Head(a) = Head(b) THEN caseCompare(Tail(a), Tail(b))
  ELSE IF Head(a) \in LowerSet THEN -1 ELSE 1

localeCompare(a, b) ==
  IF primaryCompare(a, b) # 0 THEN primaryCompare(a, b) ELSE caseCompare(a, b)

\* value.includes('_')
includesUnderscore(value) == \E i \in DOMAIN value : value[i] = "_"

\* value.split('_')[0]
RECURSIVE firstSegment(_)
firstSegment(value) ==
  IF value = <<>> \/ Head(value) = "_" THEN <<>>
  ELSE <<Head(value)>> \o firstSegment(Tail(value))

\* value.split('_').pop()
RECURSIVE lastSegment(_)
lastSegment(value) ==
  IF value = <<>> \/ value[Len(value)] = "_" THEN <<>>
  ELSE Append(lastSegment(SubSeq(value, 1, Len(value) - 1)), value[Len(value)])

\* value.replace(/_/g, ' ')
underscoresToSpaces(value) ==
  [i \in 1..Len(value) |-> IF value[i] = "_" THEN " " ELSE value[i]]

\* the manufacturer field of a ship row: an object {code, external_id}, a
\* string, or null
ManufacturerObject(code, externalId) ==
  [kind |-> "object", code |-> code, external_id |-> externalId, text |-> Null]
ManufacturerString(text) ==
  [kind |-> "string", code |-> Null, external_id |-> Null, text |-> text]
ManufacturerNull ==
  [kind |-> "null", code |-> Null, external_id |-> Null, text |-> Null]

manufacturerCodeFromShip(ship) ==
  IF ship.manufacturer.kind = "object" /\ ~Falsy(ship.manufacturer.code)
    THEN ship.manufacturer.code
  ELSE IF ship.manufacturer.kind = "object" /\ ~Falsy(ship.manufacturer.external_id)
    THEN ship.manufacturer.external_id
  ELSE IF ship.manufacturer.kind = "string" THEN ship.manufacturer.text
  ELSE IF includesUnderscore(ship.external_id) THEN firstSegment(ship.external_id)
  ELSE UNKNOWN

SHIP == <<"S","H","I","P">>

canonicalHullForShip(ship) ==
  LET manufacturerCode == manufacturerCodeFromShip(ship)
      code == extractVariantCode(Coalesce(ship.name, Coalesce(ship.external_id, <<>>)))
      family ==
        cleanFamilyName(Coalesce(ship.external_id, Coalesce(ship.name, SHIP)), code,
                        manufacturerCode)
  IN [hullKey |-> buildHullKey(manufacturerCode, family),
      baseName |-> underscoresToSpaces(family)]

\* the ships the loop over ships does not skip
usableShips(rows) == { ship \in rows : ~Falsy(ship.id) /\ ~Falsy(ship.external_id) }

\* the loop over ships: the Map ship id -> canonical hull
hullKeysOf(rows) ==
  [id \in { ship.id : ship \in usableShips(rows) } |->
     canonicalHullForShip(CHOOSE ship \in usableShips(rows) : ship.id = id)]

\* the loop over ships: the ship rows whose external_id is not the hull key
shipUpdatesOf(rows) ==
  { [id |-> ship.id, external_id |-> canonicalHullForShip(ship).hullKey] :
      ship \in { s \in usableShips(rows) : s.external_id # canonicalHullForShip(s).hullKey } }

\* normaliseId(variant.ship): the reference is held as a string or null
normaliseId(value) == IF Falsy(value) THEN Null ELSE value

\* the candidate the collect loop pushes for a variant row
candidateOf(variant) ==
  LET nameSource == Coalesce(variant.name, Coalesce(variant.external_id, <<>>))
      detected == detectEditionOrLivery(nameSource)
  IN [id |-> variant.id,
      external_id |-> variant.external_id,
      name |-> variant.name,
      editionCode |-> detected.editionCode,
      livery |-> detected.livery,
      editionOnly |-> isEditionOnly(nameSource)]

\* the canonical variant id the collect loop computes for a variant row
canonicalIdOfVariant(variant, hullRef) ==
  LET nameSource == Coalesce(variant.name, Coalesce(variant.external_id, <<>>))
      code == extractVariantCode(IF ~Falsy(nameSource) THEN nameSource
                                 ELSE variant.external_id)
  IN toCanonicalVariantExtId(hullRef.hullKey, code)

\* whether the collect loop skips the variant row
skipsVariant(variant, hullKeys) ==
  \/ Falsy(variant.id)
  \/ normaliseId(variant.ship) = Null
  \/ normaliseId(variant.ship) \notin DOMAIN hullKeys

entryIndex(map, canonicalId) ==
  IF \E i \in DOMAIN map : map[i].canonicalId = canonicalId
  THEN CHOOSE i \in DOMAIN map : map[i].canonicalId = canonicalId
  ELSE 0

\* one iteration of the collect loop: canonicalMap after the variant row
collect(map, variant, hullKeys) ==
  IF skipsVariant(variant, hullKeys) THEN map
  ELSE
    LET hullRef == hullKeys[normaliseId(variant.ship)]
        canonicalId == canonicalIdOfVariant(variant, hullRef)
        index == entryIndex(map, canonicalId)
    IN IF index = 0
       THEN Append(map, [canonicalId |-> canonicalId,
                         hullKey |-> hullRef.hullKey,
                         baseName |-> hullRef.baseName,
                         candidates |-> <<candidateOf(variant)>>])
       ELSE [map EXCEPT ![index].candidates = Append(@, candidateOf(variant))]

\* mutant of candidateRank: an edition-only record ranks with the others
candidateRank_ExactOnly(candidate, canonicalId) ==
  IF candidate.external_id = canonicalId THEN 0 ELSE 1

\* the rank of the comparator of candidates.sort
candidateRank(candidate, canonicalId) ==
  IF candidate.external_id = canonicalId THEN 0
  ELSE IF candidate.editionOnly THEN 2 ELSE 1

\* mutant of candidateCompare: the tie-break on external_id is lost
candidateCompare_NoTieBreak(a, b, canonicalId) ==
  candidateRank(a, canonicalId) - candidateRank(b, canonicalId)

\* the comparator of candidates.sort
candidateCompare(a, b, canonicalId) ==
  IF candidateRank(a, canonicalId) # candidateRank(b, canonicalId)
  THEN candidateRank(a, canonicalId) - candidateRank(b, canonicalId)
  ELSE localeCompare(a.external_id, b.external_id)

\* candidates.sort(...): Array.prototype.sort is stable
RECURSIVE insertCandidate(_, _, _)
insertCandidate(sorted, x, canonicalId) ==
  IF sorted = <<>> THEN <<x>>
  ELSE IF candidateCompare(Head(sorted), x, canonicalId) <= 0
       THEN <<Head(sorted)>> \o insertCandidate(Tail(sorted), x, canonicalId)
       ELSE <<x>> \o sorted

RECURSIVE sortCandidates(_, _)
sortCandidates(candidates, canonicalId) ==
  IF candidates = <<>> THEN <<>>
  ELSE insertCandidate(
         sortCandidates(SubSeq(candidates, 1, Len(candidates) - 1), canonicalId),
         candidates[Len(candidates)], canonicalId)

\* the row update pushed for a keeper whose external_id is not the canonical id
keeperUpdateOf(keeper, entry) ==
  LET code == lastSegment(entry.canonicalId)
  IN [id |-> keeper.id,
      external_id |-> entry.canonicalId,
      variant_code |-> code,
      name |-> canonicalVariantName(entry.baseName, code)]

\* whether the merge loop records edition metadata for a duplicate
hasEditionMetadata(duplicate) ==
  ~Falsy(duplicate.editionCode) \/ ~Falsy(duplicate.livery)

\* mutant of metadataOf: the livery of the duplicate is dropped
metadataOf_ProfileOnly(duplicate) ==
  [profile |-> duplicate.editionCode, livery |-> Null]

\* the edition metadata recorded for a duplicate
metadataOf(duplicate) ==
  [profile |-> duplicate.editionCode, livery |-> Coalesce(duplicate.livery, Null)]

\* editionMetadata after the merge loop over the duplicates
RECURSIVE mergeMetadata(_, _)
mergeMetadata(metadata, duplicates) ==
  IF duplicates = <<>> THEN metadata
  ELSE mergeMetadata(
         IF hasEditionMetadata(Head(duplicates))
         THEN MapSet(metadata, Head(duplicates).id, metadataOf(Head(duplicates)))
         ELSE metadata,
         Tail(duplicates))

\* variantMigrationMap after keeper and duplicates of an entry are set
RECURSIVE mergeMigration(_, _, _)
mergeMigration(migration, members, canonicalId) ==
  IF members = <<>> THEN migration
  ELSE mergeMigration(MapSet(migration, Head(members).id, canonicalId), Tail(members),
                      canonicalId)

\* mutant of dryRunOf: the script never runs dry
dryRunOf_Never(apply) == FALSE

\* const dryRun = !hasApply
dryRunOf(apply) == ~apply

\* a request to the data store
request(op, collection) == [op |-> op, collection |-> collection]

\* the requests that change the data store
writeOps == { "updateMany", "deleteMany" }

\* for (const batch of chunk(items)) await write(collection, batch): no batch,
\* no request, when there is nothing to write
batchRequests(op, collection, items) ==
  IF items = {} THEN {} ELSE { request(op, collection) }

\* whether the cascade repoints a dependent row
repointed(row, migration) ==
  LET variantRef == normaliseId(row.ship_variant)
  IN /\ variantRef # Null
     /\ variantRef \in DOMAIN migration
     /\ ~Falsy(migration[variantRef])
     /\ migration[variantRef] # variantRef

\* shipStatUpdates after the loop over the fetched ship_stats rows
shipStatUpdatesOf(rows, migration) ==
  { [id |-> stat.id, ship_variant |-> migration[normaliseId(stat.ship_variant)]] :
      stat \in { r \in rows : repointed(r, migration) } }

\* hardpointUpdates after the loop over the fetched hardpoints rows
hardpointUpdatesOf(rows, migration) ==
  { [id |-> hardpoint.id,
     ship_variant |-> migration[normaliseId(hardpoint.ship_variant)]] :
      hardpoint \in { r \in rows : repointed(r, migration) } }

\* editionMetadata.get(variantRef), with undefined as a record of nulls
editionOf(metadata, variantRef) ==
  IF variantRef \in DOMAIN metadata THEN metadata[variantRef]
  ELSE [profile |-> Null, livery |-> Null]

\* the update pushed for an installed item that is repointed
installedUpdateOf(installed, migration, metadata) ==
  LET variantRef == normaliseId(installed.ship_variant)
      editionOfRef == editionOf(metadata, variantRef)
  IN [id |-> installed.id,
      ship_variant |-> migration[variantRef],
      profile |-> Coalesce(Coalesce(editionOfRef.profile, installed.profile), Null),
      livery |-> Coalesce(Coalesce(editionOfRef.livery, installed.livery), Null)]

\* installedUpdates after the loop over the fetched installed_items rows
installedUpdatesOf(rows, migration, metadata) ==
  { installedUpdateOf(installed, migration, metadata) :
      installed \in { r \in rows : repointed(r, migration) } }

-----------------------------------------------------------------------------
(* The deduplication migration as a state machine                           *)

\* bound: the number of ship_variants rows in the store
MaxVariants == 2

\* the ships collection: "RSI_AURORA" has no name and an object manufacturer,
\* "RSI_ZEUS" is named "Zeus" and holds its manufacturer as a string,
\* "CUTTER" has no manufacturer
ShipRows ==
  { [id |-> <<"s","1">>, external_id |-> <<"R","S","I","_","A","U","R","O","R","A">>, name |-> Null,
     manufacturer |-> ManufacturerObject(RSI, Null)],
    [id |-> <<"s","2">>, external_id |-> <<"R","S","I","_","Z","E","U","S">>, name |-> <<"Z","e","u","s">>,
     manufacturer |-> ManufacturerString(RSI)],
    [id |-> <<"s","3">>, external_id |-> <<"C","U","T","T","E","R">>, name |-> <<"C","u","t","t","e","r">>,
     manufacturer |-> ManufacturerNull] }

\* the ship_variants rows a store is drawn from; external_id is unique, as
\* the loader upserts ship_variants by external_id (load.ts:480)
VariantRows ==
  { \* "Aurora MR"
    [id |-> <<"v","1">>, external_id |-> <<"m","r","-","2">>, ship |-> <<"s","1">>,
     name |-> <<"A","u","r","o","r","a"," ","M","R">>],
    \* no name, external_id already canonical
    [id |-> <<"v","2">>, external_id |-> <<"R","S","I","_","A","U","R","O","R","A","_","M","R">>, ship |-> <<"s","1">>,
     name |-> Null],
    \* "Aurora MR Paint Tiger Stripe"
    [id |-> <<"v","3">>, external_id |-> <<"m","r","-","1">>, ship |-> <<"s","1">>,
     name |-> <<"A","u","r","o","r","a"," ","M","R"," ","P","a","i","n","t"," ","T","i","g","e","r"," ","S","t","r","i","p","e">>],
    \* "Aurora Base Warbond": an edition of the base variant
    [id |-> <<"v","4">>, external_id |-> <<"b","a","s","e","-","1">>, ship |-> <<"s","1">>,
     name |-> <<"A","u","r","o","r","a"," ","B","a","s","e"," ","W","a","r","b","o","n","d">>],
    \* "Aurora Base"
    [id |-> <<"v","5">>, external_id |-> <<"b","a","s","e","-","2">>, ship |-> <<"s","1">>,
     name |-> <<"A","u","r","o","r","a"," ","B","a","s","e">>],
    \* "Explorer Aurora": no vocabulary token
    [id |-> <<"v","6">>, external_id |-> <<"e","x","p","l","o","r","e","r">>, ship |-> <<"s","1">>,
     name |-> <<"E","x","p","l","o","r","e","r"," ","A","u","r","o","r","a">>],
    \* "Zeus CL IAE" on the second hull
    [id |-> <<"v","7">>, external_id |-> <<"z","e","u","s","-","c","l">>, ship |-> <<"s","2">>,
     name |-> <<"Z","e","u","s"," ","C","L"," ","I","A","E">>],
    \* a row without a ship reference
    [id |-> <<"v","8">>, external_id |-> <<"o","r","p","h","a","n">>, ship |-> Null,
     name |-> <<"A","u","r","o","r","a"," ","M","R">>],
    \* "Aurora MR" again, with an upper-case external_id
    [id |-> <<"v","1","0">>, external_id |-> <<"M","R","-","3">>, ship |-> <<"s","1">>,
     name |-> <<"A","u","r","o","r","a"," ","M","R">>],
    \* "Cutter Base" on the hull without manufacturer
    [id |-> <<"v","9">>, external_id |-> <<"c","u","t","t","e","r","-","1">>, ship |-> <<"s","3">>,
     name |-> <<"C","u","t","t","e","r"," ","B","a","s","e">>] }

Stores == { rows \in SUBSET VariantRows : Cardinality(rows) \in 1..MaxVariants }

\* a row of ship_stats or of hardpoints
DependentRow(id, variantRef) == [id |-> id, ship_variant |-> variantRef]

\* a row of installed_items
InstalledRow(id, variantRef, profile, livery) ==
  [id |-> id, ship_variant |-> variantRef, profile |-> profile, livery |-> livery]

\* what the fetch of the dependents finds: rows that reference the
\* ship_variants rows, a row that is not in the store and no row at all
DependentStores ==
  { [shipStats |-> { DependentRow(<<"t","1">>, <<"v","1">>), DependentRow(<<"t","2">>, Null),
                     DependentRow(<<"t","3">>, <<"v","0">>) },
     hardpoints |-> { DependentRow(<<"h","1">>, <<"v","3">>), DependentRow(<<"h","2">>, <<"v","7">>) },
     installedItems |->
       { \* an own livery, on the variant with the livery "Tiger Stripe"
         InstalledRow(<<"n","1">>, <<"v","3">>, Null, <<"R","e","d">>),
         \* an own profile, on the "Warbond" variant
         InstalledRow(<<"n","2">>, <<"v","4">>, <<"I","A","E">>, Null),
         \* neither, on the "Warbond" variant
         InstalledRow(<<"n","3">>, <<"v","4">>, Null, Null),
         \* both, on a variant without edition
         InstalledRow(<<"n","4">>, <<"v","1">>, <<"C","u","s","t","o","m">>, <<"B","l","u","e">>),
         \* a variant that is not in the store
         InstalledRow(<<"n","5">>, <<"v","0">>, Null, <<"B","l","u","e">>) }] }

\* the canon functions are not being applied
CanonIdle ==
  /\ source = Null
  /\ manufacturer = Null
  /\ variantCode = Null
  /\ loaderVariantCode = Null
  /\ familyName = Null
  /\ hullKey = Null
  /\ variantExtId = Null
  /\ edition = NoEdition
  /\ editionOnly = FALSE
  /\ cpc = "idle"

DedupInit ==
  /\ CanonIdle
  /\ TransformIdle
  /\ CompaniesIdle
  /\ ships \in {ShipRows, {}}
  /\ shipVariants \in Stores
  /\ \E store \in DependentStores :
       /\ shipStats = store.shipStats
       /\ hardpoints = store.hardpoints
       /\ installedItems = store.installedItems
  /\ hasApply \in BOOLEAN
  /\ hasDryRun \in BOOLEAN
  /\ dryRun = dryRunOf(hasApply)
  /\ requests = {}
  /\ mpc = "args"
  /\ variants = {}
  /\ hullKeyByShipId = <<>>
  /\ shipUpdates = {}
  /\ canonicalMap = <<>>
  /\ resolved = 0
  /\ variantMigrationMap = <<>>
  /\ editionMetadata = <<>>
  /\ keeperUpdates = {}
  /\ variantsToDelete = {}
  /\ mergeLog = <<>>
  /\ shipStatUpdates = {}
  /\ hardpointUpdates = {}
  /\ installedUpdates = {}
  /\ run = 1
  /\ firstRun = <<>>

\* main() up to the first fetch: --apply together with --dry-run throws
ParseArgs ==
  /\ mpc = "args"
  /\ mpc' = IF hasApply /\ hasDryRun THEN "failed" ELSE "ships"
  /\ UNCHANGED <<passVars, storeVars, argVars, requests, run, firstRun, canonVars,
                 transformVars, companyVars>>

\* main() up to the fetch of ship_variants: the loop over the ships
CanonicaliseShips ==
  /\ mpc = "ships"
  /\ IF ships = {}
     THEN /\ mpc' = "done"
          /\ requests' = requests \cup { request("fetchAll", "ships") }
          /\ UNCHANGED <<hullKeyByShipId, shipUpdates, variants>>
     ELSE /\ hullKeyByShipId' = hullKeysOf(ships)
          /\ shipUpdates' = shipUpdatesOf(ships)
          /\ variants' = shipVariants
          /\ requests' = requests \cup { request("fetchAll", "ships"),
                                         request("fetchAll", "ship_variants") }
          /\ mpc' = IF shipVariants = {} THEN "resolve" ELSE "collect"
  /\ UNCHANGED <<canonicalMap, resolved, variantMigrationMap, editionMetadata,
                 keeperUpdates, variantsToDelete, mergeLog, shipStatUpdates,
                 hardpointUpdates, installedUpdates>>
  /\ UNCHANGED <<storeVars, argVars, run, firstRun, canonVars, transformVars, companyVars>>

\* one iteration of the loop over the fetched variants, which arrive in any order
Collect ==
  /\ mpc = "collect"
  /\ \E variant \in variants :
       /\ canonicalMap' = collect(canonicalMap, variant, hullKeyByShipId)
       /\ variants' = variants \ {variant}
       /\ mpc' = IF variants' = {} THEN "resolve" ELSE "collect"
  /\ UNCHANGED <<hullKeyByShipId, shipUpdates, resolved, variantMigrationMap,
                 editionMetadata, keeperUpdates, variantsToDelete, mergeLog,
                 shipStatUpdates, hardpointUpdates, installedUpdates>>
  /\ UNCHANGED <<storeVars, argVars, requests, run, firstRun, canonVars, transformVars,
                 companyVars>>

\* one iteration of the loop over canonicalMap.values(): sort, pick the
\* keeper, merge the duplicates
ResolveEntry ==
  /\ mpc = "resolve"
  /\ resolved < Len(canonicalMap)
  /\ LET entry == canonicalMap[resolved + 1]
         sorted == sortCandidates(entry.candidates, entry.canonicalId)
         keeper == sorted[1]
         duplicates == Tail(sorted)
     IN /\ canonicalMap' = [canonicalMap EXCEPT ![resolved + 1].candidates = sorted]
        /\ variantMigrationMap' =
             mergeMigration(variantMigrationMap, sorted, entry.canonicalId)
        /\ keeperUpdates' =
             IF keeper.external_id # entry.canonicalId
             THEN keeperUpdates \cup {keeperUpdateOf(keeper, entry)}
             ELSE keeperUpdates
        /\ variantsToDelete' =
             variantsToDelete \cup { duplicates[i].id : i \in DOMAIN duplicates }
        /\ editionMetadata' = mergeMetadata(editionMetadata, duplicates)
        /\ mergeLog' =
             Append(mergeLog,
                    [canonical |-> entry.canonicalId,
                     merged |-> [i \in DOMAIN duplicates |-> duplicates[i].external_id]])
  /\ resolved' = resolved + 1
  /\ mpc' = "resolve"
  /\ UNCHANGED <<variants, hullKeyByShipId, shipUpdates, shipStatUpdates,
                 hardpointUpdates, installedUpdates>>
  /\ UNCHANGED <<storeVars, argVars, requests, run, firstRun, canonVars, transformVars,
                 companyVars>>

\* every entry is resolved: main() fetches the dependents and collects the
\* rows to repoint
EndResolve ==
  /\ mpc = "resolve"
  /\ resolved = Len(canonicalMap)
  /\ requests' = requests \cup { request("fetchAll", "ship_stats"),
                                 request("fetchAll", "installed_items"),
                                 request("fetchAll", "hardpoints") }
  /\ shipStatUpdates' = shipStatUpdatesOf(shipStats, variantMigrationMap)
  /\ hardpointUpdates' = hardpointUpdatesOf(hardpoints, variantMigrationMap)
  /\ installedUpdates' =
       installedUpdatesOf(installedItems, variantMigrationMap, editionMetadata)
  /\ mpc' = "persist"
  /\ UNCHANGED <<variants, hullKeyByShipId, shipUpdates, canonicalMap, resolved,
                 variantMigrationMap, editionMetadata, keeperUpdates,
                 variantsToDelete, mergeLog>>
  /\ UNCHANGED <<storeVars, argVars, run, firstRun, canonVars, transformVars, companyVars>>

\* if (dryRun) return
DryRunReturn ==
  /\ mpc = "persist"
  /\ dryRun
  /\ mpc' = "done"
  /\ UNCHANGED <<passVars, storeVars, argVars, requests, run, firstRun, canonVars,
                 transformVars, companyVars>>

\* a ship row after updateMany('ships', shipUpdates)
updatedShip(ship, updates) ==
  IF \E u \in updates : u.id = ship.id
  THEN [ship EXCEPT !.external_id = (CHOOSE u \in updates : u.id = ship.id).external_id]
  ELSE ship

\* a ship_variants row after updateMany('ship_variants', keeperUpdates)
updatedVariant(variant, updates) ==
  IF \E u \in updates : u.id = variant.id
  THEN LET u == CHOOSE x \in updates : x.id = variant.id
       IN [variant EXCEPT !.external_id = u.external_id, !.name = u.name]
  ELSE variant

\* a ship_stats or hardpoints row after updateMany(collection, updates)
updatedDependent(row, updates) ==
  IF \E u \in updates : u.id = row.id
  THEN [row EXCEPT !.ship_variant = (CHOOSE u \in updates : u.id = row.id).ship_variant]
  ELSE row

\* an installed_items row after updateMany('installed_items', installedUpdates)
updatedInstalled(installed, updates) ==
  IF \E u \in updates : u.id = installed.id
  THEN LET u == CHOOSE x \in updates : x.id = installed.id
       IN [installed EXCEPT !.ship_variant = u.ship_variant, !.profile = u.profile,
                            !.livery = u.livery]
  ELSE installed

\* what no write of apply mode changes
applyFrame == <<passVars, argVars, run, firstRun, canonVars, transformVars, companyVars>>

\* mutant of DeleteDuplicates: the duplicates are deleted once the keepers are
\* written, before a dependent is repointed
DeleteDuplicates_BeforeRepoint ==
  /\ mpc = "updateShipStats"
  /\ shipVariants' = { v \in shipVariants : v.id \notin variantsToDelete }
  /\ requests' = requests \cup batchRequests("deleteMany", "ship_variants", variantsToDelete)
  /\ mpc' = "updateShipStats"
  /\ variantsToDelete \cap { v.id : v \in shipVariants } # {}
  /\ UNCHANGED <<ships, shipStats, hardpoints, installedItems>>
  /\ UNCHANGED applyFrame

\* apply mode, first write: for (const batch of chunk(shipUpdates)) await
\* updateMany('ships', batch)
UpdateShips ==
  /\ mpc = "persist"
  /\ ~dryRun
  /\ ships' = { updatedShip(ship, shipUpdates) : ship \in ships }
  /\ requests' = requests \cup batchRequests("updateMany", "ships", shipUpdates)
  /\ mpc' = "updateKeepers"
  /\ UNCHANGED <<shipVariants, shipStats, hardpoints, installedItems>>
  /\ UNCHANGED applyFrame

\* updateMany('ship_variants', batch) over keeperUpdates
UpdateKeepers ==
  /\ mpc = "updateKeepers"
  /\ shipVariants' = { updatedVariant(variant, keeperUpdates) : variant \in shipVariants }
  /\ requests' = requests \cup batchRequests("updateMany", "ship_variants", keeperUpdates)
  /\ mpc' = "updateShipStats"
  /\ UNCHANGED <<ships, shipStats, hardpoints, installedItems>>
  /\ UNCHANGED applyFrame

\* updateMany('ship_stats', batch) over shipStatUpdates
UpdateShipStats ==
  /\ mpc = "updateShipStats"
  /\ shipStats' = { updatedDependent(stat, shipStatUpdates) : stat \in shipStats }
  /\ requests' = requests \cup batchRequests("updateMany", "ship_stats", shipStatUpdates)
  /\ mpc' = "updateHardpoints"
  /\ UNCHANGED <<ships, shipVariants, hardpoints, installedItems>>
  /\ UNCHANGED applyFrame

\* updateMany('hardpoints', batch) over hardpointUpdates
UpdateHardpoints ==
  /\ mpc = "updateHardpoints"
  /\ hardpoints' =
       { updatedDependent(hardpoint, hardpointUpdates) : hardpoint \in hardpoints }
  /\ requests' = requests \cup batchRequests("updateMany", "hardpoints", hardpointUpdates)
  /\ mpc' = "updateInstalledItems"
  /\ UNCHANGED <<ships, shipVariants, shipStats, installedItems>>
  /\ UNCHANGED applyFrame

\* updateMany('installed_items', batch) over installedUpdates
UpdateInstalledItems ==
  /\ mpc = "updateInstalledItems"
  /\ installedItems' =
       { updatedInstalled(installed, installedUpdates) : installed \in installedItems }
  /\ requests' =
       requests \cup batchRequests("updateMany", "installed_items", installedUpdates)
  /\ mpc' = "deleteDuplicates"
  /\ UNCHANGED <<ships, shipVariants, shipStats, hardpoints>>
  /\ UNCHANGED applyFrame

\* the last write: deleteMany('ship_variants', batch) over variantsToDelete
DeleteDuplicates ==
  /\ mpc = "deleteDuplicates"
  /\ shipVariants' = { v \in shipVariants : v.id \notin variantsToDelete }
  /\ requests' = requests \cup batchRequests("deleteMany", "ship_variants", variantsToDelete)
  /\ mpc' = "done"
  /\ UNCHANGED <<ships, shipStats, hardpoints, installedItems>>
  /\ UNCHANGED applyFrame

\* the writes of apply mode, each awaited before the next: the updates of
\* ships, keepers and dependents, then the deletes
Apply ==
  \/ UpdateShips
  \/ UpdateKeepers
  \/ UpdateShipStats
  \/ UpdateHardpoints
  \/ UpdateInstalledItems
  \/ DeleteDuplicates

\* the keeper of every resolved entry
keepersOf(map) ==
  [canonicalId \in { map[i].canonicalId : i \in DOMAIN map } |->
     map[entryIndex(map, canonicalId)].candidates[1].id]

\* the script is run again on the store the first run left behind
Rerun ==
  /\ mpc = "done"
  /\ run = 1
  /\ ~dryRun
  /\ run' = 2
  /\ firstRun' = [migration |-> variantMigrationMap, keepers |-> keepersOf(canonicalMap)]
  /\ mpc' = "args"
  /\ variants' = {}
  /\ hullKeyByShipId' = <<>>
  /\ shipUpdates' = {}
  /\ canonicalMap' = <<>>
  /\ resolved' = 0
  /\ variantMigrationMap' = <<>>
  /\ editionMetadata' = <<>>
  /\ keeperUpdates' = {}
  /\ variantsToDelete' = {}
  /\ mergeLog' = <<>>
  /\ shipStatUpdates' = {}
  /\ hardpointUpdates' = {}
  /\ installedUpdates' = {}
  /\ requests' = {}
  /\ UNCHANGED <<storeVars, argVars, canonVars, transformVars, companyVars>>

DedupNext ==
  \/ ParseArgs
  \/ CanonicaliseShips
  \/ Collect
  \/ ResolveEntry
  \/ EndResolve
  \/ DryRunReturn
  \/ Apply
  \/ Rerun

SpecDedup == DedupInit /\ [][DedupNext]_vars

-----------------------------------------------------------------------------
(* Claims about the deduplication migration, checked under SpecDedup        *)

\* the orders in which a set of rows can be fetched
Orderings(rows) ==
  { order \in [1..Cardinality(rows) -> rows] :
      \A i, j \in 1..Cardinality(rows) : i # j => order[i] # order[j] }

\* canonicalMap after the collect loop has visited the rows in the given order
RECURSIVE collectAll(_, _, _)
collectAll(map, order, hullKeys) ==
  IF order = <<>> THEN map
  ELSE collectAll(collect(map, Head(order), hullKeys), Tail(order), hullKeys)

\* canonicalMap after the keeper loop has sorted every entry
sortedMap(map) ==
  [i \in DOMAIN map |->
     [map[i] EXCEPT !.candidates = sortCandidates(@, map[i].canonicalId)]]

\* the remap table of a resolved canonicalMap: row id -> canonical id
migrationOf(map) ==
  [id \in UNION { { map[i].candidates[j].id : j \in DOMAIN map[i].candidates } :
                  i \in DOMAIN map } |->
     map[CHOOSE i \in DOMAIN map :
           \E j \in DOMAIN map[i].candidates : map[i].candidates[j].id = id].canonicalId]

\* one order of fetching the rows, the same for every run on the same rows
referenceOrder(rows) == CHOOSE order \in Orderings(rows) : TRUE

\* C1: whatever the order in which the ship_variants rows arrived, the
\* resolver ends with the remap table (row id -> canonical variant id) and the
\* keeper of every group that it ends with on the reference order of the same
\* rows; so any two orders of the same rows give the same table and keepers.
C1_Determinism ==
  mpc = "persist" =>
    LET other == sortedMap(collectAll(<<>>, referenceOrder(shipVariants), hullKeyByShipId))
    IN /\ migrationOf(other) = variantMigrationMap
       /\ keepersOf(other) = keepersOf(canonicalMap)

RSI_AURORA_MR == <<"R","S","I","_","A","U","R","O","R","A","_","M","R">>

\* two rows of equal rank ("Aurora MR", "Aurora MR Paint Tiger Stripe") are in
\* one group and the one with the smaller external_id is the keeper
C1_Witness ==
  /\ mpc = "persist"
  /\ { <<"v","1">>, <<"v","3">> } = { v.id : v \in shipVariants }
  /\ keepersOf(canonicalMap) = (RSI_AURORA_MR :> <<"v","3">>)
  /\ variantMigrationMap =
       (<<"v","1">> :> RSI_AURORA_MR @@ <<"v","3">> :> RSI_AURORA_MR)

\* the class of a member in the order of keeper selection: its own raw
\* identifier is the canonical variant id, it is not an edition-only record,
\* it is an edition-only record
keeperClass(member, canonicalId) ==
  IF member.external_id = canonicalId THEN 1
  ELSE IF ~isEditionOnly(Coalesce(member.name, Coalesce(member.external_id, <<>>))) THEN 2
  ELSE 3

\* whether a member comes before another one in the order of keeper
\* selection, ties broken by the lexicographic order of the raw identifier
beforeLexicographic(a, b, canonicalId) ==
  \/ keeperClass(a, canonicalId) < keeperClass(b, canonicalId)
  \/ /\ keeperClass(a, canonicalId) = keeperClass(b, canonicalId)
     /\ strLess(a.external_id, b.external_id)

\* the same order, ties broken by the collation order of localeCompare
beforeCollated(a, b, canonicalId) ==
  \/ keeperClass(a, canonicalId) < keeperClass(b, canonicalId)
  \/ /\ keeperClass(a, canonicalId) = keeperClass(b, canonicalId)
     /\ localeCompare(a.external_id, b.external_id) < 0

\* the entries of canonicalMap the keeper loop has resolved
resolvedEntries == { canonicalMap[i] : i \in 1..resolved }

\* whether in every resolved group the keeper is the least member under the
\* given order and every other member is a duplicate to delete, the row with
\* external id RSI_AURORA_MR being the keeper before "Aurora MR"
keeperIsLeast(Before(_, _, _)) ==
  mpc \in {"resolve", "persist"} =>
    \A entry \in resolvedEntries :
      LET keeper == entry.candidates[1]
          others == { entry.candidates[i] : i \in 2..Len(entry.candidates) }
      IN /\ \A other \in others : Before(keeper, other, entry.canonicalId)
         /\ keeper.id \notin variantsToDelete
         /\ { other.id : other \in others } \subseteq variantsToDelete
         /\ ({ <<"v","1">>, <<"v","2">> } = { c.id : c \in others \cup {keeper} } => keeper.id = <<"v","2">>)

\* C23: in every resolved group the keeper is the least member under the
\* order exact raw identifier, then not edition-only, then edition-only, ties
\* broken by the lexicographic order of the raw identifier, and every other
\* member is a duplicate to delete; of "Aurora MR" and the row with external
\* id RSI_AURORA_MR the second is the keeper.
C23_KeeperSelection == keeperIsLeast(beforeLexicographic)

\* C23 with the ties broken as candidates.sort breaks them, by localeCompare
\* of the raw identifiers: letters compare without case first, lower case
\* before upper case on a tie, "_" before "-" before digits before letters.
C23_KeeperSelectionCollated == keeperIsLeast(beforeCollated)

\* "Aurora Base Warbond" (base-1) and "Aurora Base" (base-2) are one group:
\* the edition-only record has the smaller raw identifier and is the
\* duplicate, "Aurora Base" is the keeper
C23_Witness ==
  /\ mpc = "persist"
  /\ { <<"v","4">>, <<"v","5">> } = { v.id : v \in shipVariants }
  /\ Len(canonicalMap) = 1
  /\ canonicalMap[1].candidates[1].id = <<"v","5">>
  /\ keeperClass(canonicalMap[1].candidates[1], canonicalMap[1].canonicalId) = 2
  /\ keeperClass(canonicalMap[1].candidates[2], canonicalMap[1].canonicalId) = 3
  /\ variantsToDelete = { <<"v","4">> }

\* C2: run again on the keeper rows the first run left behind (canonical
\* external_id and display name written), the resolver gives every keeper the
\* same canonical variant id and keeps it as keeper, finds no duplicate and
\* schedules no keeper update.
C2_Idempotence ==
  (run = 2 /\ mpc = "persist") =>
    /\ keeperUpdates = {}
    /\ variantsToDelete = {}
    /\ \A canonicalId \in DOMAIN firstRun.keepers :
         LET keeper == firstRun.keepers[canonicalId]
         IN /\ keeper \in DOMAIN variantMigrationMap
            /\ variantMigrationMap[keeper] = canonicalId
            /\ canonicalId \in DOMAIN keepersOf(canonicalMap)
            /\ keepersOf(canonicalMap)[canonicalId] = keeper

\* the ship_variants row of the store with the given id
variantRow(id) == CHOOSE v \in shipVariants : v.id = id

\* what detectEditionOrLivery finds in the name the collect loop reads
detectedOfRow(variant) ==
  detectEditionOrLivery(Coalesce(variant.name, Coalesce(variant.external_id, <<>>)))

\* C7: after the merge of an entry, every duplicate of it whose name carries
\* an edition code or a livery has an editionMetadata entry under its own row
\* id, holding exactly that edition code and that livery.
C7_EditionMetadataSurvives ==
  mpc \in {"resolve", "persist"} =>
    \A i \in 1..resolved :
      \A j \in 2..Len(canonicalMap[i].candidates) :
        LET id == canonicalMap[i].candidates[j].id
            detected == detectedOfRow(variantRow(id))
        IN (detected.editionCode # Null \/ detected.livery # Null)
             => /\ id \in DOMAIN editionMetadata
                /\ editionMetadata[id] =
                     [profile |-> detected.editionCode, livery |-> detected.livery]

\* "Aurora MR Paint Tiger Stripe" is merged into the row that is already
\* canonical and keeps edition PAINT and livery "Tiger Stripe"
C7_Witness ==
  /\ mpc = "persist"
  /\ <<"v","2">> \in Range(keepersOf(canonicalMap))
  /\ <<"v","3">> \in DOMAIN editionMetadata
  /\ editionMetadata[<<"v","3">>] =
       [profile |-> <<"P","A","I","N","T">>, livery |-> <<"T","i","g","e","r"," ","S","t","r","i","p","e">>]

\* the ship row carries no manufacturer and its external_id has no prefix to
\* take a manufacturer code from
noManufacturerReference(ship) ==
  /\ ship.manufacturer.kind = "null"
  /\ ~includesUnderscore(ship.external_id)

\* C11: a ship without a resolvable manufacturer reference is skipped by the
\* migration: it gets no hull key, and none of its variants is grouped or
\* entered in the remap table.
C11_NoManufacturerSkipped ==
  mpc = "persist" =>
    \A ship \in ships :
      noManufacturerReference(ship) =>
        /\ ship.id \notin DOMAIN hullKeyByShipId
        /\ \A variant \in shipVariants :
             variant.ship = ship.id => variant.id \notin DOMAIN variantMigrationMap

\* the installed_items row of the store with the given id
installedRow(id) == CHOOSE installed \in installedItems : installed.id = id

\* C13: when the cascade repoints an installed item, a profile or livery the
\* item already holds is the value the update writes: the edition code and the
\* livery of the duplicate only fill the fields the item leaves empty.
C13_CascadeNeverOverwrites ==
  mpc = "persist" =>
    \A update \in installedUpdates :
      /\ ~Falsy(installedRow(update.id).profile) =>
           update.profile = installedRow(update.id).profile
      /\ ~Falsy(installedRow(update.id).livery) =>
           update.livery = installedRow(update.id).livery

\* the rows of the three dependent collections
dependentRows == shipStats \cup hardpoints \cup installedItems

\* the duplicates the run has deleted from ship_variants
deletedDuplicates == variantsToDelete \ { v.id : v \in shipVariants }

\* the collections that have a row to repoint
collectionsToRepoint ==
  (IF shipStatUpdates # {} THEN {"ship_stats"} ELSE {})
    \cup (IF hardpointUpdates # {} THEN {"hardpoints"} ELSE {})
    \cup (IF installedUpdates # {} THEN {"installed_items"} ELSE {})

\* C28: in apply mode the delete of duplicates is issued only after the
\* updates of every dependent collection that has a row to repoint, and no
\* row of ship_stats, hardpoints or installed_items references a duplicate
\* that is already deleted.
C28_DeleteAfterRepoint ==
  /\ request("deleteMany", "ship_variants") \in requests
       => \A collection \in collectionsToRepoint :
            request("updateMany", collection) \in requests
  /\ \A row \in dependentRows : normaliseId(row.ship_variant) \notin deletedDuplicates

\* v3 is the duplicate of v2 and is deleted; the hardpoint h1 and the
\* installed item n1 that referenced it were repointed before
C28_Witness ==
  /\ mpc = "done"
  /\ ~dryRun
  /\ deletedDuplicates = { <<"v","3">> }
  /\ { request("updateMany", "hardpoints"), request("updateMany", "installed_items"),
       request("deleteMany", "ship_variants") } \subseteq requests
  /\ \E update \in hardpointUpdates : update.id = <<"h","1">>
  /\ \E update \in installedUpdates : update.id = <<"n","1">>

\* the dependent rows the cascade has scheduled an update for
rewrittenRows ==
  { stat \in shipStats : \E update \in shipStatUpdates : update.id = stat.id }
    \cup { hardpoint \in hardpoints : \E update \in hardpointUpdates : update.id = hardpoint.id }
    \cup { installed \in installedItems :
             \E update \in installedUpdates : update.id = installed.id }

\* the ids of the keeper rows of the resolved groups
keeperIds == { keepersOf(canonicalMap)[canonicalId] : canonicalId \in DOMAIN keepersOf(canonicalMap) }

\* C29: a dependent that references the keeper row of its group is not
\* rewritten, and once the run has applied its writes every dependent that
\* referenced a member of a group references the keeper row of that group by
\* the id of the row, which is a row of ship_variants.
C29_ReferentialIntegrity ==
  /\ mpc = "persist" =>
       \A row \in rewrittenRows : normaliseId(row.ship_variant) \notin keeperIds
  /\ (mpc = "done" /\ ~dryRun) =>
       \A row \in rewrittenRows :
         /\ normaliseId(row.ship_variant) \in keeperIds
         /\ normaliseId(row.ship_variant) \in { v.id : v \in shipVariants }

\* C30: in the run after an apply every ship row holds the hull key the
\* first run wrote, canonicalHullForShip gives that hull key again for it,
\* and the run schedules no ship update.
C30_HullKeyFixedPoint ==
  run = 2 =>
    /\ mpc \in {"args", "ships"} =>
         \A ship \in usableShips(ships) :
           canonicalHullForShip(ship).hullKey = ship.external_id
    /\ shipUpdates = {}

-----------------------------------------------------------------------------
(* scripts/migrate_manufacturers.ts                                         *)

\* normalizeCode(raw): undefined for null and for blank text, else the
\* trimmed text in upper case
normalizeCode(raw) ==
  IF raw = Null THEN Null
  ELSE IF trim(raw) = <<>> THEN Null
  ELSE toUpperCase(trim(raw))

\* normaliseId(value) of this script: the reference is held as a string or
\* null, and a blank string is no reference
normaliseManufacturerId(value) ==
  IF Falsy(value) \/ trim(value) = <<>> THEN Null ELSE value

\* the code a company is grouped under
groupCodeOf(company) ==
  Coalesce(normalizeCode(company.code),
           Coalesce(normalizeCode(company.external_id),
                    Coalesce(normalizeCode(company.name), normalizeCode(company.id))))

\* groups: the companies of every code
groupsOf(rows) ==
  [code \in { groupCodeOf(company) : company \in rows } \ {Null} |->
     { company \in rows : groupCodeOf(company) = code }]

\* aScore, bScore of the sort comparator
companyScore(company, code) ==
  (IF normalizeCode(company.code) = code THEN 0 ELSE 2)
    + (IF normalizeCode(company.external_id) = code THEN 0 ELSE 1)

\* the sort comparator of a group: negative when a comes first
companyCompare(a, b, code) ==
  IF companyScore(a, code) # companyScore(b, code)
  THEN companyScore(a, code) - companyScore(b, code)
  ELSE localeCompare(a.id, b.id)

\* sorted[0]: the ids of a collection differ, so one record comes first
canonicalCompany(records, code) ==
  CHOOSE a \in records : \A b \in records \ {a} : companyCompare(a, b, code) < 0

\* the entry of canonicalUpdates for the canonical company of a group
canonicalUpdateOf(canonical, code) ==
  [id |-> canonical.id,
   code |-> IF normalizeCode(canonical.code) # code THEN code ELSE Null,
   external_id |-> IF normalizeCode(canonical.external_id) # code THEN code ELSE Null]

\* canonicalUpdates after the loop over the groups
canonicalUpdatesOf(groups) ==
  { update \in { canonicalUpdateOf(canonicalCompany(groups[code], code), code) :
                   code \in DOMAIN groups } :
      ~Falsy(update.code) \/ ~Falsy(update.external_id) }

\* duplicateMap after the loop over the groups
duplicateMapOf(groups) ==
  LET duplicatesOf(code) == groups[code] \ { canonicalCompany(groups[code], code) }
      duplicateRows == UNION { duplicatesOf(code) : code \in DOMAIN groups }
  IN [id \in { company.id : company \in duplicateRows } |->
        canonicalCompany(groups[groupCodeOf(CHOOSE company \in duplicateRows :
                                              company.id = id)],
                         groupCodeOf(CHOOSE company \in duplicateRows :
                                       company.id = id)).id]

\* fetchAll with filter manufacturer _in duplicates, or [] without duplicates
referencesTo(rows, duplicates) ==
  { row \in rows : row.manufacturer \in duplicates }

\* shipUpdates, itemUpdates after the loop over the fetched references
referenceUpdatesOf(refs, duplicates) ==
  { [id |-> row.id, manufacturer |-> duplicates[normaliseManufacturerId(row.manufacturer)]] :
      row \in { r \in refs :
                  /\ normaliseManufacturerId(r.manufacturer) # Null
                  /\ normaliseManufacturerId(r.manufacturer) \in DOMAIN duplicates
                  /\ duplicates[normaliseManufacturerId(r.manufacturer)]
                       # normaliseManufacturerId(r.manufacturer) } }

\* a companies row after updateMany('companies', canonicalUpdates)
updatedCompany(company, updates) ==
  IF \E u \in updates : u.id = company.id
  THEN LET u == CHOOSE x \in updates : x.id = company.id
       IN [company EXCEPT !.code = Coalesce(u.code, company.code),
                          !.external_id = Coalesce(u.external_id, company.external_id)]
  ELSE company

\* a ships or items row after updateMany(collection, updates)
updatedReference(row, updates) ==
  IF \E u \in updates : u.id = row.id
  THEN [row EXCEPT !.manufacturer = (CHOOSE u \in updates : u.id = row.id).manufacturer]
  ELSE row

-----------------------------------------------------------------------------
(* The manufacturer migration as a state machine                            *)

\* bound: the number of companies rows in the store
MaxCompanies == 3

ManufacturerRecord(id, code, externalId, name) ==
  [id |-> id, code |-> code, external_id |-> externalId, name |-> name]

\* the companies rows a store is drawn from
CompanyRows ==
  { \* already normalized
    ManufacturerRecord(<<"c","1">>, <<"R","S","I">>, <<"R","S","I">>, <<"R","o","b","e","r","t","s"," ","S","p","a","c","e"," ","I","n","d","u","s","t","r","i","e","s">>),
    \* the same code in lower case and padded, no external_id
    ManufacturerRecord(<<"c","2">>, <<" ","r","s","i">>, Null, <<"R","S","I">>),
    \* grouped by its name
    ManufacturerRecord(<<"c","3">>, Null, Null, <<"A","e","g","s">>),
    \* grouped by its external_id
    ManufacturerRecord(<<"c","4">>, <<>>, <<"a","e","g","s">>, Null) }

CompanyStores == { rows \in SUBSET CompanyRows : Cardinality(rows) \in 0..MaxCompanies }

ReferenceRecord(id, manufacturerRef) == [id |-> id, manufacturer |-> manufacturerRef]

\* the manufacturer references of the ships and items collections
ReferenceStores ==
  { [ships |-> { ReferenceRecord(<<"s","1">>, <<"c","1">>), ReferenceRecord(<<"s","2">>, <<"c","2">>),
                 ReferenceRecord(<<"s","3">>, Null) },
     items |-> { ReferenceRecord(<<"i","1">>, <<"c","4">>), ReferenceRecord(<<"i","2">>, <<"c","3">>) }] }

CompaniesInit ==
  /\ CanonIdle
  /\ TransformIdle
  /\ ships = {}
  /\ shipVariants = {}
  /\ shipStats = {}
  /\ hardpoints = {}
  /\ installedItems = {}
  /\ mpc = "idle"
  /\ variants = {}
  /\ hullKeyByShipId = <<>>
  /\ shipUpdates = {}
  /\ canonicalMap = <<>>
  /\ resolved = 0
  /\ variantMigrationMap = <<>>
  /\ editionMetadata = <<>>
  /\ keeperUpdates = {}
  /\ variantsToDelete = {}
  /\ mergeLog = <<>>
  /\ shipStatUpdates = {}
  /\ hardpointUpdates = {}
  /\ installedUpdates = {}
  /\ run = 0
  /\ firstRun = <<>>
  /\ hasApply \in BOOLEAN
  /\ hasDryRun \in BOOLEAN
  /\ dryRun = dryRunOf(hasApply)
  /\ requests = {}
  /\ kpc = "args"
  /\ companies \in CompanyStores
  /\ references \in ReferenceStores
  /\ canonicalUpdates = {}
  /\ duplicateMap = <<>>
  /\ referenceUpdates = [ships |-> {}, items |-> {}]

\* parseArgs(): --apply together with --dry-run throws
CompaniesParseArgs ==
  /\ kpc = "args"
  /\ kpc' = IF hasApply /\ hasDryRun THEN "failed" ELSE "companies"
  /\ UNCHANGED <<companies, references, canonicalUpdates, duplicateMap, referenceUpdates>>
  /\ UNCHANGED <<canonVars, dedupVars, transformVars>>

\* main() from the fetch of the companies to the report of the proposed updates
PlanCompanies ==
  /\ kpc = "companies"
  /\ LET groups == groupsOf(companies)
         duplicates == duplicateMapOf(groups)
         nothingToDo == DOMAIN duplicates = {} /\ canonicalUpdatesOf(groups) = {}
         shipRefs == referencesTo(references.ships, DOMAIN duplicates)
         itemRefs == referencesTo(references.items, DOMAIN duplicates)
     IN IF companies = {}
        THEN /\ kpc' = "done"
             /\ requests' = requests \cup { request("fetchAll", "companies") }
             /\ UNCHANGED <<canonicalUpdates, duplicateMap, referenceUpdates>>
        ELSE /\ canonicalUpdates' = canonicalUpdatesOf(groups)
             /\ duplicateMap' = duplicates
             /\ kpc' = IF nothingToDo THEN "done" ELSE "persist"
             /\ requests' =
                  requests \cup { request("fetchAll", "companies") }
                           \cup IF DOMAIN duplicates = {} THEN {}
                                ELSE { request("fetchAll", "ships"),
                                       request("fetchAll", "items") }
             /\ referenceUpdates' =
                  IF nothingToDo THEN referenceUpdates
                  ELSE [ships |-> referenceUpdatesOf(shipRefs, duplicates),
                        items |-> referenceUpdatesOf(itemRefs, duplicates)]
  /\ UNCHANGED <<companies, references>>
  /\ UNCHANGED <<canonVars, storeVars, passVars, argVars, mpc, run, firstRun, transformVars>>

\* if (dryRun) return
CompaniesDryRunReturn ==
  /\ kpc = "persist"
  /\ dryRun
  /\ kpc' = "done"
  /\ UNCHANGED <<companies, references, canonicalUpdates, duplicateMap, referenceUpdates>>
  /\ UNCHANGED <<canonVars, dedupVars, transformVars>>

\* the writes of apply mode: the updates, then the deletes
CompaniesApply ==
  /\ kpc = "persist"
  /\ ~dryRun
  /\ companies' =
       { updatedCompany(company, canonicalUpdates) :
           company \in { c \in companies : c.id \notin DOMAIN duplicateMap } }
  /\ references' =
       [ships |-> { updatedReference(row, referenceUpdates.ships) :
                      row \in references.ships },
        items |-> { updatedReference(row, referenceUpdates.items) :
                      row \in references.items }]
  /\ requests' =
       requests \cup batchRequests("updateMany", "companies", canonicalUpdates)
                \cup batchRequests("updateMany", "ships", referenceUpdates.ships)
                \cup batchRequests("updateMany", "items", referenceUpdates.items)
                \cup batchRequests("deleteMany", "companies", DOMAIN duplicateMap)
  /\ kpc' = "done"
  /\ UNCHANGED <<canonicalUpdates, duplicateMap, referenceUpdates>>
  /\ UNCHANGED <<canonVars, storeVars, passVars, argVars, mpc, run, firstRun, transformVars>>

CompaniesNext ==
  \/ CompaniesParseArgs
  \/ PlanCompanies
  \/ CompaniesDryRunReturn
  \/ CompaniesApply

\* either migration script, run on its own
MigrationsInit == DedupInit \/ CompaniesInit

MigrationsNext == DedupNext \/ CompaniesNext

SpecMigrations == MigrationsInit /\ [][MigrationsNext]_vars

-----------------------------------------------------------------------------
(* Claims about both migration scripts, checked under SpecMigrations        *)

\* the requests that change the data store, among those issued
writesIssued == { r \in requests : r.op \in writeOps }

\* C16: without --apply neither script issues an update or a delete request,
\* in any run, and with both --apply and --dry-run the script fails before it
\* issues any request at all, a read included.
C16_DryRunDefault ==
  /\ ~hasApply => writesIssued = {}
  /\ (hasApply /\ hasDryRun) =>
       /\ requests = {}
       /\ mpc \in { "idle", "args", "failed" }
       /\ kpc \in { "idle", "args", "failed" }

\* the deduplication has finished without a flag: duplicates to delete and
\* dependents to repoint were found, and no write was issued
C16_Witness ==
  /\ mpc = "done"
  /\ ~hasApply /\ ~hasDryRun
  /\ variantsToDelete # {}
  /\ installedUpdates # {}
  /\ request("fetchAll", "installed_items") \in requests
  /\ writesIssued = {}

-----------------------------------------------------------------------------
(* src/src/transform.ts: the ship loop of transform()                       *)

\* typeof value === 'string' && value.trim() !== '' ? value : undefined
optionalString(value) == IF value = Null \/ trim(value) = <<>> THEN Null ELSE value

\* Set.add(value) on a Set held as the sequence of its insertion order
SetAdd(set, value) ==
  IF \E i \in DOMAIN set : set[i] = value THEN set ELSE Append(set, value)

Unknown == <<"U","n","k","n","o","w","n">>

\* coalesce(ship.manufacturer_id, ship.manufacturer?.id, manufacturer code)
manufacturerIdSource(ship) ==
  Coalesce(ship.manufacturer_id, optionalString(ship.manufacturer_code))

\* optionalString(ship.name) ?? ... ?? optionalString(ship.ClassName) ?? rawShipId
displayNameOf(record) ==
  Coalesce(optionalString(record.ship.name),
           Coalesce(optionalString(record.ship.ClassName), record.externalId))

classificationSourceOf(record) ==
  Coalesce(optionalString(record.ship.ClassName), displayNameOf(record))

\* extractVariantCode(`${displayName} ${classificationSource}`)
variantCodeOf(record) ==
  extractVariantCode(displayNameOf(record) \o SPACE \o classificationSourceOf(record))

familyNameOf(record) ==
  cleanFamilyName(classificationSourceOf(record), variantCodeOf(record),
                  manufacturerIdSource(record.ship))

hullKeyOf(record) == buildHullKey(manufacturerIdSource(record.ship), familyNameOf(record))

canonicalVariantIdOf(record) ==
  toCanonicalVariantExtId(hullKeyOf(record), variantCodeOf(record))

\* ensureManufacturer(externalId, 'ship', rawShipId, {code, name})
ensureManufacturer(map, externalId, code, name) ==
  IF externalId \in DOMAIN map THEN map
  ELSE MapSet(map, externalId,
              [external_id |-> externalId,
               code |-> Coalesce(optionalString(code), externalId),
               name |-> Coalesce(optionalString(name),
                                 Coalesce(optionalString(code), externalId)),
               data_source |-> "derived"])

\* hullMap after the ship record: the first record of a hull creates it, later
\* records fill in what is still missing
mergeHull(hulls, record) ==
  LET key == hullKeyOf(record)
      descriptionCandidate == optionalString(record.ship.description)
      sizeCandidate == optionalString(record.ship.size)
      classCandidate == Coalesce(optionalString(record.ship.class), Unknown)
  IN IF key \notin DOMAIN hulls
     THEN MapSet(hulls, key,
                 [external_id |-> key,
                  name |-> canonicalVariantName(underscoresToSpaces(familyNameOf(record)), BASE),
                  class |-> classCandidate,
                  size |-> sizeCandidate,
                  manufacturer_external_id |-> manufacturerIdSource(record.ship),
                  description |-> descriptionCandidate])
     ELSE MapSet(hulls, key,
                 [hulls[key] EXCEPT
                    !.description =
                      IF Falsy(@) /\ ~Falsy(descriptionCandidate)
                      THEN descriptionCandidate ELSE @,
                    !.size = IF Falsy(@) /\ ~Falsy(sizeCandidate) THEN sizeCandidate ELSE @,
                    !.class =
                      IF @ = Unknown /\ classCandidate # Unknown THEN classCandidate ELSE @])

groupIndex(groups, variantId) ==
  IF \E i \in DOMAIN groups : groups[i].variantId = variantId
  THEN CHOOSE i \in DOMAIN groups : groups[i].variantId = variantId
  ELSE 0

\* the group a record creates on first sight of its canonical variant id
newGroup(record) ==
  LET baseName == underscoresToSpaces(familyNameOf(record))
  IN [variantId |-> canonicalVariantIdOf(record),
      hullKey |-> hullKeyOf(record),
      variantCode |-> variantCodeOf(record),
      baseName |-> baseName,
      names |-> <<canonicalVariantName(baseName, variantCodeOf(record))>>,
      descriptions |-> <<>>,
      records |-> <<>>]

\* mutant of namesWith: the display name of the record is never added
namesWith_CanonicalOnly(names, record, baseName) ==
  IF ~Falsy(detectEditionOrLivery(displayNameOf(record)).editionCode)
  THEN SetAdd(names, canonicalVariantName(baseName, variantCodeOf(record)))
  ELSE names

\* group.names after the record
namesWith(names, record, baseName) ==
  LET withDisplayName ==
        IF ~isEditionOnly(displayNameOf(record)) /\ ~Falsy(displayNameOf(record))
        THEN SetAdd(names, displayNameOf(record)) ELSE names
  IN IF ~Falsy(detectEditionOrLivery(displayNameOf(record)).editionCode)
     THEN SetAdd(withDisplayName, canonicalVariantName(baseName, variantCodeOf(record)))
     ELSE withDisplayName

\* group.descriptions after the record
descriptionsWith(descriptions, record) ==
  IF ~Falsy(optionalString(record.ship.description))
  THEN SetAdd(descriptions, optionalString(record.ship.description))
  ELSE descriptions

\* the loadout record pushed onto group.records
loadoutRecordOf(record) ==
  [variantId |-> canonicalVariantIdOf(record),
   record |-> record,
   profile |-> detectEditionOrLivery(displayNameOf(record)).editionCode,
   livery |-> detectEditionOrLivery(displayNameOf(record)).livery,
   isEditionOnly |-> isEditionOnly(displayNameOf(record))]

\* mutant of groupWith: the record takes the place of the members before it
groupWith_Latest(group, record) ==
  [group EXCEPT
     !.records = <<loadoutRecordOf(record)>>,
     !.names = namesWith(@, record, group.baseName),
     !.descriptions = descriptionsWith(@, record)]

\* the group of the record after the record is added to it
groupWith(group, record) ==
  [group EXCEPT
     !.records = Append(@, loadoutRecordOf(record)),
     !.names = namesWith(@, record, group.baseName),
     !.descriptions = descriptionsWith(@, record)]

\* variantGroups after the ship record
mergeGroup(groups, record) ==
  LET index == groupIndex(groups, canonicalVariantIdOf(record))
  IN IF index = 0 THEN Append(groups, groupWith(newGroup(record), record))
     ELSE [groups EXCEPT ![index] = groupWith(@, record)]

-----------------------------------------------------------------------------
(* src/src/transform.ts: raw variants, emitted variants and dependents      *)

\* asExternalId(value) throws on undefined and null
asExternalIdThrows(value) == value = Null

\* asExternalId(value) of an identifier that is present: String(value)
asExternalId(value) == value

\* log.warn(message, {subject})
warning(message, subject) == [message |-> message, subject |-> subject]

\* extractVariantCode(`${variant_code ?? ''} ${name ?? ''}`) of a raw variant
variantCodeOfRaw(variant) ==
  extractVariantCode(Coalesce(optionalString(variant.variant_code), <<>>) \o SPACE
                       \o Coalesce(optionalString(variant.name), <<>>))

\* shipIdToHullKey.get(parentShipId), undefined held as Null
hullKeyOfRaw(variant, hullKeys) ==
  IF variant.ship_id \in DOMAIN hullKeys THEN hullKeys[variant.ship_id] ELSE Null

\* the raw variant makes asExternalId throw
variantThrows(variant) ==
  asExternalIdThrows(variant.id) \/ asExternalIdThrows(variant.ship_id)

\* the group of a raw variant's canonical id takes its name and description
groupWithVariant(group, variant) ==
  [group EXCEPT
     !.names = IF ~Falsy(variant.name) THEN SetAdd(@, variant.name) ELSE @,
     !.descriptions =
       IF ~Falsy(variant.description) THEN SetAdd(@, variant.description) ELSE @]

\* variantGroups after one raw variant that is not skipped
groupsWithVariant(groups, variant, hullKeys) ==
  LET canonicalId ==
        toCanonicalVariantExtId(hullKeyOfRaw(variant, hullKeys), variantCodeOfRaw(variant))
      index == groupIndex(groups, canonicalId)
  IN IF index = 0 THEN groups
     ELSE [groups EXCEPT ![index] = groupWithVariant(@, variant)]

\* items.sort((a, b) => a.external_id.localeCompare(b.external_id)), stable
RECURSIVE insertByExternalId(_, _)
insertByExternalId(sorted, x) ==
  IF sorted = <<>> THEN <<x>>
  ELSE IF localeCompare(x.external_id, sorted[Len(sorted)].external_id) >= 0
       THEN Append(sorted, x)
       ELSE Append(insertByExternalId(SubSeq(sorted, 1, Len(sorted) - 1), x),
                   sorted[Len(sorted)])

RECURSIVE sortByExternalId(_)
sortByExternalId(items) ==
  IF items = <<>> THEN <<>>
  ELSE insertByExternalId(sortByExternalId(SubSeq(items, 1, Len(items) - 1)),
                          items[Len(items)])

\* the ship variant emitted for a group
normalizedVariantOf(group) ==
  LET names ==
        IF group.names # <<>> THEN group.names
        ELSE <<canonicalVariantName(group.baseName, group.variantCode)>>
  IN [external_id |-> group.variantId,
      ship_external_id |-> group.hullKey,
      variant_code |-> group.variantCode,
      name |-> names[1],
      description |-> IF group.descriptions # <<>> THEN group.descriptions[1] ELSE Null]

\* shipVariants: the emitted variants, sorted by external_id
normalizedVariants(groups) ==
  sortByExternalId([i \in DOMAIN groups |-> normalizedVariantOf(groups[i])])

\* rawToCanonicalVariant after every emitted id is mapped to itself
RECURSIVE withCanonicalIds(_, _)
withCanonicalIds(remap, emitted) ==
  IF emitted = <<>> THEN remap
  ELSE withCanonicalIds(MapSet(remap, Head(emitted).external_id, Head(emitted).external_id),
                        Tail(emitted))

\* rawToCanonicalVariant.get(id) is undefined, or names no emitted variant
unknownVariant(remap, variantIds, id) ==
  \/ id \notin DOMAIN remap
  \/ Falsy(remap[id])
  \/ remap[id] \notin variantIds

COLON == <<":">>

\* the hardpoints emitted for the raw hardpoints, before sorting
RECURSIVE hardpointAccumulator(_, _, _)
hardpointAccumulator(raw, remap, variantIds) ==
  IF raw = <<>> THEN <<>>
  ELSE IF unknownVariant(remap, variantIds, asExternalId(Head(raw).ship_variant_id))
       THEN hardpointAccumulator(Tail(raw), remap, variantIds)
       ELSE LET canonicalVariantId == remap[asExternalId(Head(raw).ship_variant_id)]
                generatedId == canonicalVariantId \o COLON \o Head(raw).code
            IN <<[external_id |-> asExternalId(Coalesce(Head(raw).id, generatedId)),
                  ship_variant_external_id |-> canonicalVariantId,
                  code |-> Head(raw).code]>>
                 \o hardpointAccumulator(Tail(raw), remap, variantIds)

\* the warnings of a loop over dependents whose variant is unknown
dependentWarnings(raw, remap, variantIds, message) ==
  { warning(message, raw[i].ship_variant_id) :
      i \in { j \in DOMAIN raw :
                unknownVariant(remap, variantIds, asExternalId(raw[j].ship_variant_id)) } }

\* the stats payload buildShipStatsFallback takes from a raw ship
statsPayloadOf(ship) ==
  IF "Mass" \in DOMAIN ship /\ ship.Mass # Null THEN [mass |-> ship.Mass] ELSE <<>>

\* group.records.find((entry) => !entry.isEditionOnly) ?? group.records[0]
baseRecordOf(group) ==
  IF \E i \in DOMAIN group.records : ~group.records[i].isEditionOnly
  THEN group.records[CHOOSE i \in DOMAIN group.records :
                       /\ ~group.records[i].isEditionOnly
                       /\ \A j \in 1..(i - 1) : group.records[j].isEditionOnly]
  ELSE group.records[1]

RECURSIVE buildShipStatsFallback(_)
buildShipStatsFallback(groups) ==
  IF groups = <<>> THEN <<>>
  ELSE (IF Head(groups).records = <<>>
           \/ statsPayloadOf(baseRecordOf(Head(groups)).record.ship) = <<>>
        THEN <<>>
        ELSE <<[ship_variant_external_id |-> Head(groups).variantId,
                stats |-> statsPayloadOf(baseRecordOf(Head(groups)).record.ship)]>>)
       \o buildShipStatsFallback(Tail(groups))

\* the ship stats emitted for the raw ship stats
RECURSIVE shipStatsOf(_, _, _)
shipStatsOf(raw, remap, variantIds) ==
  IF raw = <<>> THEN <<>>
  ELSE IF unknownVariant(remap, variantIds, asExternalId(Head(raw).ship_variant_id))
       THEN shipStatsOf(Tail(raw), remap, variantIds)
       ELSE <<[ship_variant_external_id |-> remap[asExternalId(Head(raw).ship_variant_id)],
               stats |-> Coalesce(Head(raw).stats, <<>>)]>>
              \o shipStatsOf(Tail(raw), remap, variantIds)

\* the installed item is skipped: unknown variant or unknown item
installedSkipped(installed, remap, variantIds, itemIds) ==
  \/ unknownVariant(remap, variantIds, asExternalId(installed.ship_variant_id))
  \/ asExternalId(installed.item_id) \notin itemIds

\* the installed items emitted for the raw installed items, before sorting
RECURSIVE installedAccumulator(_, _, _, _)
installedAccumulator(raw, remap, variantIds, itemIds) ==
  IF raw = <<>> THEN <<>>
  ELSE IF installedSkipped(Head(raw), remap, variantIds, itemIds)
       THEN installedAccumulator(Tail(raw), remap, variantIds, itemIds)
       ELSE <<[ship_variant_external_id |-> remap[asExternalId(Head(raw).ship_variant_id)],
               item_external_id |-> asExternalId(Head(raw).item_id),
               quantity |-> IF Head(raw).quantity # Null THEN Head(raw).quantity ELSE 1,
               hardpoint_external_id |->
                 IF ~Falsy(Head(raw).hardpoint_id) THEN asExternalId(Head(raw).hardpoint_id)
                 ELSE Null]>>
              \o installedAccumulator(Tail(raw), remap, variantIds, itemIds)

\* the key sortInstalledItems compares
installedKey(item) ==
  item.ship_variant_external_id \o COLON \o item.item_external_id \o COLON
    \o Coalesce(item.hardpoint_external_id, <<>>) \o COLON \o COLON

RECURSIVE insertInstalled(_, _)
insertInstalled(sorted, x) ==
  IF sorted = <<>> THEN <<x>>
  ELSE IF localeCompare(installedKey(x), installedKey(sorted[Len(sorted)])) >= 0
       THEN Append(sorted, x)
       ELSE Append(insertInstalled(SubSeq(sorted, 1, Len(sorted) - 1), x),
                   sorted[Len(sorted)])

RECURSIVE sortInstalledItems(_)
sortInstalledItems(items) ==
  IF items = <<>> THEN <<>>
  ELSE insertInstalled(sortInstalledItems(SubSeq(items, 1, Len(items) - 1)),
                       items[Len(items)])

-----------------------------------------------------------------------------
(* The resolution pass of transform() as a state machine                    *)

\* bound: the number of ship records read from the raw directory
MaxShips == 3

RawShip(manufacturerCode, name, className, description) ==
  [manufacturer_id |-> Null, manufacturer_code |-> manufacturerCode,
   manufacturer_name |-> Null, name |-> name, ClassName |-> className,
   description |-> description, size |-> Null, class |-> Null]

\* the ship records a raw directory is drawn from; readShipRecords keys them
\* by externalId, so the identifiers are unique
RawShipRecords ==
  { \* "Aurora MR"
    [externalId |-> <<"a","1">>,
     ship |-> RawShip(RSI, <<"A","u","r","o","r","a"," ","M","R">>, Null, <<"f","i","r","s","t">>)],
    \* "Aurora MR Warbond": an edition of the MR variant
    [externalId |-> <<"a","2">>,
     ship |-> RawShip(RSI, <<"A","u","r","o","r","a"," ","M","R"," ","W","a","r","b","o","n","d">>, Null, <<"s","e","c","o","n","d">>)],
    \* "Aurora Base Warbond": an edition of the base variant
    [externalId |-> <<"a","3">>,
     ship |-> RawShip(RSI, <<"A","u","r","o","r","a"," ","B","a","s","e"," ","W","a","r","b","o","n","d">>, Null, <<"t","h","i","r","d">>)],
    \* "Aurora Base"
    [externalId |-> <<"a","4">>,
     ship |-> RawShip(RSI, <<"A","u","r","o","r","a"," ","B","a","s","e">>, Null, Null)],
    \* "Aurora MR" again, its manufacturer code in lower case
    [externalId |-> <<"a","6">>,
     ship |-> RawShip(<<"r","s","i">>, <<"A","u","r","o","r","a"," ","M","R">>, Null, Null)],
    \* another hull, another manufacturer
    [externalId |-> <<"g","1">>,
     ship |-> RawShip(AEGS, <<"G","l","a","d","i","u","s"," ","V","a","l","i","a","n","t"," ","P","a","i","n","t"," ","R","e","d">>, Null, <<"f","o","u","r","t","h">>)],
    \* no manufacturer reference
    [externalId |-> <<"x","1">>,
     ship |-> RawShip(Null, <<"A","u","r","o","r","a"," ","M","R">>, Null, <<"f","i","f","t","h">>)] }

RawDirectories == { records \in SUBSET RawShipRecords : Cardinality(records) \in 1..MaxShips }

\* a raw variant of ship_variants.json
RawVariant(id, shipId, name, description) ==
  [id |-> id, ship_id |-> shipId, variant_code |-> Null, name |-> name,
   description |-> description]

\* the contents ship_variants.json can have: absent, a variant of a known
\* ship, a variant without id before it, a variant whose id is the id of the
\* ship record "a4", a variant of an unknown ship
RawVariantFiles ==
  { <<>>,
    <<RawVariant(<<"r","v","1">>, <<"a","1">>, <<"A","u","r","o","r","a"," ","M","R"," ","D","e","l","u","x","e">>, <<"s","i","x","t","h">>)>>,
    <<RawVariant(Null, <<"a","1">>, <<"A","u","r","o","r","a"," ","M","R">>, Null),
      RawVariant(<<"r","v","1">>, <<"a","1">>, <<"A","u","r","o","r","a"," ","M","R"," ","D","e","l","u","x","e">>, <<"s","i","x","t","h">>)>>,
    <<RawVariant(<<"a","4">>, <<"a","1">>, <<"A","u","r","o","r","a"," ","M","R">>, Null)>>,
    <<RawVariant(<<"r","v","2">>, <<"g","h","o","s","t">>, <<"A","u","r","o","r","a"," ","L","N">>, Null)>> }

RawHardpoint(id, variantId, code) == [id |-> id, ship_variant_id |-> variantId, code |-> code]

\* the contents hardpoints.json can have
RawHardpointFiles ==
  { <<>>,
    <<RawHardpoint(Null, <<"g","h","o","s","t">>, <<"n","o","s","e">>), RawHardpoint(<<"h","p","1">>, <<"a","1">>, <<"n","o","s","e">>)>>,
    <<RawHardpoint(Null, <<"a","2">>, <<"w","i","n","g">>), RawHardpoint(<<"h","p","2">>, Null, <<"t","a","i","l">>)>> }

RawShipStat(variantId) == [ship_variant_id |-> variantId, stats |-> Null]

\* the contents ship_stats.json can have
RawShipStatFiles ==
  { <<>>, <<RawShipStat(<<"a","1">>), RawShipStat(<<"g","h","o","s","t">>), RawShipStat(<<"a","3">>)>> }

RawInstalledItem(variantId, itemId, hardpointId) ==
  [ship_variant_id |-> variantId, item_id |-> itemId, quantity |-> Null,
   hardpoint_id |-> hardpointId]

\* the contents installed_items.json can have
RawInstalledItemFiles ==
  { <<>>,
    <<RawInstalledItem(<<"g","h","o","s","t">>, <<"i","1">>, Null), RawInstalledItem(<<"a","1">>, <<"i","1">>, <<"h","p","1">>),
      RawInstalledItem(<<"a","1">>, <<"i","2">>, Null)>> }

\* the external ids of the items the item pass emitted
ItemIds == { <<"i","1">> }

NoBundle == [ship_variants |-> <<>>, hardpoints |-> <<>>, ship_stats |-> <<>>,
             installed_items |-> <<>>]

\* no dependent file is read yet
NoDependents == [hardpoints |-> <<>>, ship_stats |-> <<>>, installed_items |-> <<>>]

TransformInit ==
  /\ CanonIdle
  /\ DedupIdle
  /\ CompaniesIdle
  /\ tpc = "ships"
  /\ shipRecords \in RawDirectories
  /\ manufacturerMap =
       (RSI :> [external_id |-> RSI, code |-> RSI, name |-> RSI, data_source |-> "raw"])
  /\ hullMap = <<>>
  /\ shipIdToHullKey = <<>>
  /\ variantGroups = <<>>
  /\ rawToCanonicalVariant = <<>>
  /\ rawVariants = <<>>
  /\ rawDependents = NoDependents
  /\ bundle = NoBundle
  /\ warnings = {}

\* one iteration of the loop over shipRecords for a record without a
\* manufacturer reference: a warning, and the record is skipped
SkipShip ==
  /\ tpc = "ships"
  /\ \E record \in shipRecords :
       /\ Falsy(manufacturerIdSource(record.ship))
       /\ shipRecords' = shipRecords \ {record}
       /\ warnings' =
            warnings \cup {warning("Skipping ship without manufacturer reference",
                                   record.externalId)}
  /\ UNCHANGED <<tpc, resolveVars, rawVariants, bundle>>
  /\ UNCHANGED rawDependents
  /\ UNCHANGED <<canonVars, dedupVars, companyVars>>

\* one iteration of the loop over shipRecords, which arrive in any order
ProcessShip ==
  /\ tpc = "ships"
  /\ \E record \in shipRecords :
       /\ ~Falsy(manufacturerIdSource(record.ship))
       /\ manufacturerMap' =
            ensureManufacturer(manufacturerMap, manufacturerIdSource(record.ship),
                               record.ship.manufacturer_code, record.ship.manufacturer_name)
       /\ shipIdToHullKey' = MapSet(shipIdToHullKey, record.externalId, hullKeyOf(record))
       /\ rawToCanonicalVariant' =
            MapSet(rawToCanonicalVariant, record.externalId, canonicalVariantIdOf(record))
       /\ hullMap' = mergeHull(hullMap, record)
       /\ variantGroups' = mergeGroup(variantGroups, record)
       /\ shipRecords' = shipRecords \ {record}
  /\ UNCHANGED <<tpc, rawVariants, bundle, warnings>>
  /\ UNCHANGED rawDependents
  /\ UNCHANGED <<canonVars, dedupVars, companyVars>>

\* the loop over shipRecords is over: ship_variants.json is read
EndShips ==
  /\ tpc = "ships"
  /\ shipRecords = {}
  /\ tpc' = "variants"
  /\ rawVariants' \in RawVariantFiles
  /\ UNCHANGED <<shipRecords, resolveVars, bundle, warnings>>
  /\ UNCHANGED rawDependents
  /\ UNCHANGED <<canonVars, dedupVars, companyVars>>

\* one iteration of the loop over rawVariants, in file order; a variant
\* without id or ship_id makes asExternalId throw, which ends transform()
ProcessVariant ==
  /\ tpc = "variants"
  /\ rawVariants # <<>>
  /\ LET variant == Head(rawVariants)
     IN IF variantThrows(variant)
        THEN /\ tpc' = "failed"
             /\ UNCHANGED <<rawVariants, resolveVars>>
        ELSE /\ tpc' = "variants"
             /\ rawVariants' = Tail(rawVariants)
             /\ IF Falsy(hullKeyOfRaw(variant, shipIdToHullKey))
                THEN UNCHANGED resolveVars
                ELSE /\ rawToCanonicalVariant' =
                          MapSet(rawToCanonicalVariant, asExternalId(variant.id),
                                 toCanonicalVariantExtId(
                                   hullKeyOfRaw(variant, shipIdToHullKey),
                                   variantCodeOfRaw(variant)))
                     /\ variantGroups' =
                          groupsWithVariant(variantGroups, variant, shipIdToHullKey)
                     /\ UNCHANGED <<manufacturerMap, hullMap, shipIdToHullKey>>
  /\ UNCHANGED <<shipRecords, bundle, warnings>>
  /\ UNCHANGED rawDependents
  /\ UNCHANGED <<canonVars, dedupVars, companyVars>>

\* the variants are emitted, sorted, and every emitted id is mapped to itself
EmitVariants ==
  /\ tpc = "variants"
  /\ rawVariants = <<>>
  /\ bundle' = [bundle EXCEPT !.ship_variants = normalizedVariants(variantGroups)]
  /\ rawToCanonicalVariant' =
       withCanonicalIds(rawToCanonicalVariant, normalizedVariants(variantGroups))
  /\ tpc' = "hardpoints"
  /\ UNCHANGED <<shipRecords, manufacturerMap, hullMap, shipIdToHullKey, variantGroups,
                 rawVariants, warnings>>
  /\ UNCHANGED rawDependents
  /\ UNCHANGED <<canonVars, dedupVars, companyVars>>

\* variantIds: the external ids of the emitted variants
variantIdsOf(emitted) == { emitted[i].external_id : i \in DOMAIN emitted }

\* hardpoints.json is read and resolved; the ship records of the model carry
\* no loadout, so that an empty file leaves no hardpoints
ResolveHardpoints ==
  /\ tpc = "hardpoints"
  /\ \E raw \in RawHardpointFiles :
       IF \E i \in DOMAIN raw : asExternalIdThrows(raw[i].ship_variant_id)
       THEN /\ tpc' = "failed"
            /\ UNCHANGED <<rawDependents, bundle, warnings>>
       ELSE /\ tpc' = "ship_stats"
            /\ rawDependents' = [rawDependents EXCEPT !.hardpoints = raw]
            /\ bundle' =
                 [bundle EXCEPT
                    !.hardpoints =
                      sortByExternalId(
                        hardpointAccumulator(raw, rawToCanonicalVariant,
                                             variantIdsOf(bundle.ship_variants)))]
            /\ warnings' =
                 warnings \cup
                   dependentWarnings(raw, rawToCanonicalVariant,
                                     variantIdsOf(bundle.ship_variants),
                                     "Hardpoint references unknown variant")
  /\ UNCHANGED <<shipRecords, resolveVars, rawVariants>>
  /\ UNCHANGED <<canonVars, dedupVars, companyVars>>

\* ship_stats.json is read and resolved
ResolveShipStats ==
  /\ tpc = "ship_stats"
  /\ \E raw \in RawShipStatFiles :
       /\ rawDependents' = [rawDependents EXCEPT !.ship_stats = raw]
       /\ bundle' =
            [bundle EXCEPT
               !.ship_stats =
                 IF raw # <<>>
                 THEN shipStatsOf(raw, rawToCanonicalVariant,
                                  variantIdsOf(bundle.ship_variants))
                 ELSE buildShipStatsFallback(variantGroups)]
       /\ warnings' =
            warnings \cup
              dependentWarnings(raw, rawToCanonicalVariant,
                                variantIdsOf(bundle.ship_variants),
                                "Ship stats entry references unknown variant")
  /\ tpc' = "installed_items"
  /\ UNCHANGED <<shipRecords, resolveVars, rawVariants>>
  /\ UNCHANGED <<canonVars, dedupVars, companyVars>>

\* installed_items.json is read and resolved, and the bundle is returned
ResolveInstalledItems ==
  /\ tpc = "installed_items"
  /\ \E raw \in RawInstalledItemFiles :
       /\ rawDependents' = [rawDependents EXCEPT !.installed_items = raw]
       /\ bundle' =
            [bundle EXCEPT
               !.installed_items =
                 sortInstalledItems(
                   installedAccumulator(raw, rawToCanonicalVariant,
                                        variantIdsOf(bundle.ship_variants), ItemIds))]
       /\ warnings' =
            warnings \cup
              { warning("Skipping installed item with missing references",
                        raw[i].ship_variant_id) :
                  i \in { j \in DOMAIN raw :
                            installedSkipped(raw[j], rawToCanonicalVariant,
                                             variantIdsOf(bundle.ship_variants), ItemIds) } }
  /\ tpc' = "done"
  /\ UNCHANGED <<shipRecords, resolveVars, rawVariants>>
  /\ UNCHANGED <<canonVars, dedupVars, companyVars>>

TransformNext ==
  \/ SkipShip
  \/ ProcessShip
  \/ EndShips
  \/ ProcessVariant
  \/ EmitVariants
  \/ ResolveHardpoints
  \/ ResolveShipStats
  \/ ResolveInstalledItems

SpecTransform == TransformInit /\ [][TransformNext]_vars

-----------------------------------------------------------------------------
(* Claims about the groups of transform(), checked under SpecTransform      *)

\* the member records of a group
membersOf(group) == { group.records[i].record : i \in DOMAIN group.records }

startsWithSeq(after, before) ==
  Len(before) <= Len(after) /\ SubSeq(after, 1, Len(before)) = before

\* whether a group after a step still is the group it was before, with every
\* member, name and description it had
groupKept(before, after) ==
  /\ after.variantId = before.variantId
  /\ after.hullKey = before.hullKey
  /\ startsWithSeq(after.records, before.records)
  /\ startsWithSeq(after.names, before.names)
  /\ startsWithSeq(after.descriptions, before.descriptions)

\* C24: no step of the resolution pass removes a group, a member, a name or a
\* description: every group is there after the step, with all it held before.
C24_GroupsAdditive ==
  [][\A g \in DOMAIN variantGroups :
       /\ g \in DOMAIN variantGroups'
       /\ groupKept(variantGroups[g], variantGroups'[g])]_vars

\* the MR group after two ship records and the raw variant "Aurora MR Deluxe":
\* two members, the names and descriptions of all three, beside another group
C24_Witness ==
  /\ tpc = "variants"
  /\ rawVariants = <<>>
  /\ Len(variantGroups) = 2
  /\ \E g \in DOMAIN variantGroups :
       /\ Len(variantGroups[g].records) = 2
       /\ { <<"A","u","r","o","r","a"," ","M","R">>, <<"A","u","r","o","r","a"," ","M","R"," ","D","e","l","u","x","e">> } \subseteq Range(variantGroups[g].names)
       /\ { <<"f","i","r","s","t">>, <<"s","e","c","o","n","d">>, <<"s","i","x","t","h">> } = Range(variantGroups[g].descriptions)

\* C25: any two raw records that are members of one group have the same
\* manufacturer code.
C25_GroupWithinManufacturer ==
  \A g \in DOMAIN variantGroups :
    \A first, second \in membersOf(variantGroups[g]) :
      manufacturerIdSource(first.ship) = manufacturerIdSource(second.ship)

\* transform() has emitted the variants: the resolver pass is over
resolverDone == tpc \in {"hardpoints", "ship_stats", "installed_items", "done"}

\* C12: after the resolver pass of transform() the remap table maps the raw
\* identifier of every member record of every group to the canonical variant
\* id of that group.
C12_RemapTotalAndCorrect ==
  resolverDone =>
    \A g \in DOMAIN variantGroups :
      \A member \in membersOf(variantGroups[g]) :
        /\ member.externalId \in DOMAIN rawToCanonicalVariant
        /\ rawToCanonicalVariant[member.externalId] = variantGroups[g].variantId

\* the variant reference of a raw dependent is absent from the remap table
remapMiss(dependent) == asExternalId(dependent.ship_variant_id) \notin DOMAIN rawToCanonicalVariant

\* C14: when transform() returns, every raw ship statistic, hardpoint and
\* installed item whose variant reference is absent from the remap table has
\* been reported with a warning and is still in the emitted collection, with
\* the variant reference it came with.
C14_RemapMissKept ==
  tpc = "done" =>
    /\ \A i \in DOMAIN rawDependents.ship_stats :
         remapMiss(rawDependents.ship_stats[i]) =>
           /\ \E w \in warnings : w.subject = rawDependents.ship_stats[i].ship_variant_id
           /\ \E j \in DOMAIN bundle.ship_stats :
                bundle.ship_stats[j].ship_variant_external_id =
                  rawDependents.ship_stats[i].ship_variant_id
    /\ \A i \in DOMAIN rawDependents.hardpoints :
         remapMiss(rawDependents.hardpoints[i]) =>
           /\ \E w \in warnings : w.subject = rawDependents.hardpoints[i].ship_variant_id
           /\ \E j \in DOMAIN bundle.hardpoints :
                bundle.hardpoints[j].ship_variant_external_id =
                  rawDependents.hardpoints[i].ship_variant_id
    /\ \A i \in DOMAIN rawDependents.installed_items :
         remapMiss(rawDependents.installed_items[i]) =>
           /\ \E w \in warnings : w.subject = rawDependents.installed_items[i].ship_variant_id
           /\ \E j \in DOMAIN bundle.installed_items :
                bundle.installed_items[j].ship_variant_external_id =
                  rawDependents.installed_items[i].ship_variant_id

\* C15: a raw record without a usable identifier is skipped for that record
\* only, so transform() never ends by throwing on a missing identifier.
C15_MissingIdentifierLocal == tpc # "failed"

\* the ship records the loop over shipRecords has put into groups
processedRecords ==
  UNION { membersOf(variantGroups[g]) : g \in DOMAIN variantGroups }

\* variantGroups and hullMap after the ship loop has visited the records in
\* the given order
RECURSIVE groupsAfter(_, _)
groupsAfter(groups, order) ==
  IF order = <<>> THEN groups
  ELSE groupsAfter(mergeGroup(groups, Head(order)), Tail(order))

RECURSIVE hullsAfter(_, _)
hullsAfter(hulls, order) ==
  IF order = <<>> THEN hulls
  ELSE hullsAfter(mergeHull(hulls, Head(order)), Tail(order))

\* the merged fields of the hull records
mergedHulls(hulls) ==
  [key \in DOMAIN hulls |->
     [description |-> hulls[key].description, size |-> hulls[key].size,
      class |-> hulls[key].class]]

\* the loop over shipRecords is over and ship_variants.json is not read yet
shipLoopOver == tpc = "ships" /\ shipRecords = {}

\* whether a list is sorted by external_id
sortedByExternalId(items) ==
  \A i, j \in DOMAIN items :
    i < j => localeCompare(items[i].external_id, items[j].external_id) <= 0

\* C27: the ship variants projected from the groups (display name, merged
\* description) and the merged hull records (description, size, class) are
\* those the same ship records give in the reference order, so they are the
\* same for every order of arrival; the emitted variants are sorted by
\* canonical id.
C27_ArrivalOrderIndependent ==
  /\ shipLoopOver =>
       LET reference == referenceOrder(processedRecords)
       IN /\ normalizedVariants(variantGroups) =
               normalizedVariants(groupsAfter(<<>>, reference))
          /\ mergedHulls(hullMap) = mergedHulls(hullsAfter(<<>>, reference))
  /\ resolverDone => sortedByExternalId(bundle.ship_variants)

====
